---- MODULE Spec2Model ----
(***************************************************************************)
(* AgentFlux streaming pipeline: filesystem walker -> hasher -> deduper -> *)
(* batched HTTP shipper, wired with bounded Go channels and one shared     *)
(* cancellation context.  Every goroutine is a process with a program      *)
(* counter; every channel is a bounded FIFO with a closed flag.            *)
(***************************************************************************)
EXTENDS Integers, Sequences, FiniteSets, TLC

(***************************************************************************)
(* Bounds of the model.                                                    *)
(***************************************************************************)
\* paths the environment feeds to a stand-alone Hasher
MaxPaths == 3
\* hasher worker goroutines (HashProcessor.WorkerCount)
WorkerCount == 1
\* records the environment feeds to one Deduplicate run
MaxRecords == 2
\* Reset calls issued by the environment
MaxResets == 1
\* records the environment feeds to a stand-alone Shipper
MaxShipRecords == 3
\* largest APIClient.BatchSize tried
MaxBatchSize == 2
\* largest APIClient.MaxRetries tried
MaxRetriesBound == 1
MaxRoots == 1
MaxDepthBound == 2
\* capacity standing for the walker's file channel (1000 in the code)
FileChanCap == 3
\* capacity standing for the deduper's output channel (100 in the code)
OutputChanCap == 2
\* capacity standing for the shipper's error channel (10 in the code)
ErrorChanCap == 1
\* capacity standing for the walker's error channel (100 in the code)
ScanErrChanCap == 1

\* the bufio.Scanner's buffer (4096 bytes at first in the library)
ScanBufSize == 3
\* the longest file content given to extractStrings
MaxContent == 4
\* extractStrings stops after this many strings
StringsCap == 10000
\* the largest retry index given to calculateBackoff
MaxRetryIndex == 65
\* goroutines that call addToBatch and flushBatch on one APIClient
MaxCallers == 2
\* calls each of them makes
MaxCalls == 2

VARIABLES
    cancelled,      \* ctx.Done() is closed
    chan,           \* channel name -> buffered items, in FIFO order
    closed,         \* channel name -> close() has been called
    \* ---- Hasher (processor.HashProcessor) ----
    hp,             \* the HashProcessor's configuration fields
    hpc,            \* worker -> "recv" | "send" | "done"
    hres,           \* worker -> the FileResult it is about to send
    hReceived,      \* history: paths received by the workers, in order
    hSent,          \* history: FileResults sent on the result channel
    envPaths,       \* number of paths the environment has fed so far
    \* ---- Deduper (dedup.DeduplicationEngine) ----
    dedupType,      \* DedupType
    seen,           \* the keys of the seen map
    totalFiles,
    uniqueFiles,
    lock,           \* holder of d.lock for writing: "free", a run or "reset"
    doneClosed,     \* the channel d.done currently refers to is closed
    dpc,            \* run -> position of the Deduplicate goroutine
    dcur,           \* run -> the record received and not yet dealt with
    dlog,           \* history: run -> the records counted, each with whether it was sent
    resetPc,        \* position of the caller of Reset
    resets,         \* number of Reset calls so far
    snapshot,       \* the pair the last GetStats call returned
    \* ---- Shipper (api.APIClient) ----
    ship,           \* the APIClient's configuration fields
    spc,            \* position of the ingest goroutine started by SendResults
    currentBatch,
    batchMutex,     \* "free" or "ingest"
    scur,           \* the record received and not yet appended
    sbatch,         \* the batch handed to sendBatch
    sfrom,          \* the caller of sendBatch: "add" (addToBatch) or "flush"
    attempts,       \* outcomes of the requests of the current sendWithRetries call
    lastErr,        \* the error the current send returns, "" for nil
    posts,          \* history: the batches handed to sendBatch, each with the context
                    \* given, the number of requests issued, what the last step of
                    \* its send met, and the number of errors offered for it
    sReceived,      \* history: records received from the input channel
    waited,         \* APIClient.Wait has returned
    envUnique,      \* number of records the environment has fed to the Shipper
    bufAtCancel,    \* history: the Shipper's buffer at the moment of cancel()
    flightAtCancel, \* history: which of posts was being attempted at cancel(), 0 for none
    \* ---- Walker (scanner.FileScanner) ----
    wtodo,          \* per root task: what is left of its walk
    wpc,            \* per root task: "walk", "send" or "done"
    scanCloser,     \* position of the goroutine of Scan that closes its channels
    wdropped,       \* history: errors the Walker dropped on a full error channel
    scanner,        \* the FileScanner's configuration
    wsent,          \* history: the paths sent on the file channel, in order
    \* ---- Driver (run) ----
    scanErrorCount, \* the counter of the goroutine that ranges over scanErrors
    apiErrorCount,  \* the counter of the goroutine that ranges over apiErrors
    monPc,          \* "scan" or "api" -> position of that monitor goroutine
    summary,        \* what run printed after apiClient.Wait(), NoSummary before
    \* ---- HashProcessor.extractStrings (one call) ----
    exContent,      \* history: the bytes the reader r holds at the call
    StringMinLength,
    rdRest,         \* the bytes r has not returned yet
    scanBuf,        \* bufio.Scanner: the bytes read and not yet consumed
    scanEOF,        \* bufio.Scanner: r has returned io.EOF
    exResult,       \* the slice result
    seenStrings,
    exPc,           \* "scan" (scanner.Scan() is called), "read" (the Scanner reads
                    \* more data) or "done" (extractStrings has returned)
    \* ---- calculateBackoff (one call) ----
    retry,
    maxBackoff,
    delay,          \* what the call returned, NoDelay before
    \* callers of addToBatch and flushBatch on one APIClient
    cpc,            \* caller -> where it is in its call
    cbatch,         \* caller -> its local copy of the batch
    cerr,           \* caller -> the error its last call returned, "" for nil
    lockCount,      \* caller -> calls of batchMutex.Lock that returned
    unlockCount,    \* caller -> calls of batchMutex.Unlock
    unheldUnlocks,  \* calls of batchMutex.Unlock by a caller not holding it
    callsMade,      \* caller -> calls begun
    \* history of the close statements of the Deduplicator
    closeCount,     \* output channel -> times close was called on it
    doneCloseCount  \* done channel, numbered by the Resets before it was made ->
                    \* times close was called on it

hashVars == <<hp, hpc, hres, hReceived, hSent, envPaths>>
dedupVars == <<dedupType, seen, totalFiles, uniqueFiles, lock, doneClosed, dpc,
               dcur, dlog, resetPc, resets, snapshot>>
shipVars == <<ship, spc, currentBatch, batchMutex, scur, sbatch, sfrom, attempts,
              lastErr, posts, sReceived, waited>>
walkVars == <<wtodo, wpc, scanCloser, wdropped, scanner, wsent>>
driverVars == <<scanErrorCount, apiErrorCount, monPc, summary>>
stringsVars == <<exContent, StringMinLength, rdRest, scanBuf, scanEOF, exResult,
                 seenStrings, exPc>>
backoffVars == <<retry, maxBackoff, delay>>
callerVars == <<cpc, cbatch, cerr, lockCount, unlockCount, unheldUnlocks, callsMade>>
closeVars == <<closeCount, doneCloseCount>>
vars == <<cancelled, chan, closed, hashVars, dedupVars, shipVars, envUnique, walkVars,
          bufAtCancel, flightAtCancel, driverVars, stringsVars, backoffVars, callerVars,
          closeVars>>

\* what each component's actions leave alone
notHashVars == <<dedupVars, shipVars, envUnique, walkVars, bufAtCancel, flightAtCancel,
                 driverVars, stringsVars, backoffVars, callerVars, closeVars>>
notDedupCloseVars == <<hashVars, shipVars, envUnique, walkVars, bufAtCancel,
                       flightAtCancel, driverVars, stringsVars, backoffVars, callerVars>>
notDedupVars == <<notDedupCloseVars, closeVars>>
notShipVars == <<hashVars, dedupVars, walkVars, bufAtCancel, flightAtCancel,
                 driverVars, stringsVars, backoffVars, callerVars, closeVars>>
notWalkVars == <<hashVars, dedupVars, shipVars, envUnique, bufAtCancel, flightAtCancel,
                 driverVars, stringsVars, backoffVars, callerVars, closeVars>>
notDriverVars == <<hashVars, dedupVars, shipVars, envUnique, walkVars, bufAtCancel,
                   flightAtCancel, stringsVars, backoffVars, callerVars, closeVars>>
notStringsVars == <<cancelled, chan, closed, hashVars, dedupVars, shipVars, envUnique,
                    walkVars, bufAtCancel, flightAtCancel, driverVars, backoffVars,
                    callerVars, closeVars>>
notBackoffVars == <<cancelled, chan, closed, hashVars, dedupVars, shipVars, envUnique,
                    walkVars, bufAtCancel, flightAtCancel, driverVars, stringsVars,
                    callerVars, closeVars>>
notCallerVars == <<cancelled, chan, closed, hashVars, dedupVars, envUnique, walkVars,
                   bufAtCancel, flightAtCancel, driverVars, stringsVars, backoffVars,
                   closeVars, ship, spc, scur, sbatch, sfrom, attempts, lastErr, posts,
                   sReceived, waited>>

(***************************************************************************)
(* Channels.                                                               *)
(***************************************************************************)
Workers == 1..WorkerCount

ChanNames == {"file", "scanErr", "result", "unique", "apiErr", "in1", "out1", "in2", "out2",
              "nil", "out3"}

\* make(chan T, n): the capacities the constructors give
Cap(c) ==
    CASE c = "file"    -> FileChanCap
      [] c = "scanErr" -> ScanErrChanCap
      [] c = "result"  -> WorkerCount * 2
      [] c = "unique"  -> OutputChanCap
      [] c = "apiErr"  -> ErrorChanCap
      [] c \in {"in1", "in2"}   -> MaxRecords
      [] c \in {"out1", "out2", "out3"} -> OutputChanCap
      [] c = "nil"     -> 0

CanSend(c) == ~closed[c] /\ Len(chan[c]) < Cap(c)
CanRecv(c) == Len(chan[c]) > 0
\* a receive on a closed and drained channel returns at once with ok = false
RecvClosed(c) == closed[c] /\ Len(chan[c]) = 0

Send(ch, c, v) == [ch EXCEPT ![c] = Append(@, v)]
Recv(ch, c) == [ch EXCEPT ![c] = Tail(@)]

(***************************************************************************)
(* The files the Hasher can be asked about.  A path is modelled by what    *)
(* os.Stat, os.Open and the reads answer for it.                           *)
(***************************************************************************)
RECURSIVE JoinPath(_)
JoinPath(parts) ==
    IF parts = <<>> THEN "" ELSE "/" \o Head(parts) \o JoinPath(Tail(parts))

\* filepath.Base: the last component
Base(parts) == parts[Len(parts)]

File(parts, statOK, size, openOK, readOK, seekOK, scanOK, content) ==
    [parts |-> parts, statOK |-> statOK, size |-> size, openOK |-> openOK,
     readOK |-> readOK, seekOK |-> seekOK, scanOK |-> scanOK, content |-> content]

Files ==
    { File(<<"t", "a.txt">>,  TRUE,  5, TRUE,  TRUE,  TRUE,  TRUE,  "hello"),
      File(<<"t", "b.txt">>,  TRUE,  5, TRUE,  TRUE,  TRUE,  TRUE,  "hello"),
      File(<<"t", "x.bin">>,  TRUE,  9, TRUE,  TRUE,  TRUE,  TRUE,  "bigbigbig"),
      File(<<"t", "gone">>,   FALSE, 0, FALSE, FALSE, FALSE, FALSE, ""),
      File(<<"t", "locked">>, TRUE,  3, FALSE, FALSE, FALSE, FALSE, "abc"),
      File(<<"t", "bad">>,    TRUE,  3, TRUE,  FALSE, FALSE, FALSE, "abc"),
      File(<<"t", "pipe">>,   TRUE,  3, TRUE,  TRUE,  FALSE, FALSE, "abc"),
      File(<<"t", "long">>,   TRUE,  3, TRUE,  TRUE,  TRUE,  FALSE, "abc") }

Paths == { JoinPath(f.parts) : f \in Files }
FileAt(p) == CHOOSE f \in Files : JoinPath(f.parts) = p

SupportedAlgorithms == {"md5", "sha1", "sha256", "sha512"}

\* fmt.Sprintf("%x", hasher.Sum(nil)): a digest is determined by the
\* algorithm and the bytes read
HexDigest(alg, content) == alg \o "(" \o content \o ")"

\* HashProcessor configurations tried (NewHashProcessor's defaults, with a
\* size limit small enough for x.bin to exceed it)
HashConfigs ==
    { [HashAlgorithm |-> "sha256", ExtractStrings |-> x, SkipLargeFiles |-> TRUE,
       MaxFileSize |-> 8] : x \in BOOLEAN }

DefaultHashConfig ==
    [HashAlgorithm |-> "sha256", ExtractStrings |-> FALSE, SkipLargeFiles |-> TRUE,
     MaxFileSize |-> 8]

NoResult == [path |-> "", name |-> "", size |-> 0, hash |-> "",
             hashAlgorithm |-> "", error |-> ""]

\* HashProcessor.calculateHash: <<hash, error>>
calculateHash(h, f) ==
    IF h.HashAlgorithm \notin SupportedAlgorithms
    THEN <<"", "unsupported hash algorithm: " \o h.HashAlgorithm>>
    ELSE IF ~f.readOK THEN <<"", "read error">>
    ELSE <<HexDigest(h.HashAlgorithm, f.content), "">>

\* HashProcessor.processFile
processFile(h, p) ==
    LET f == FileAt(p)
        r0 == [path |-> p, name |-> Base(f.parts), size |-> 0, hash |-> "",
               hashAlgorithm |-> h.HashAlgorithm, error |-> ""]
        r1 == [r0 EXCEPT !.size = f.size]
        hv == calculateHash(h, f)
        r2 == [r1 EXCEPT !.hash = hv[1]]
    IN  IF ~f.statOK THEN [r0 EXCEPT !.error = "stat error: no such file"]
        ELSE IF h.SkipLargeFiles /\ f.size > h.MaxFileSize
        THEN [r1 EXCEPT !.error = "file too large (" \o ToString(f.size) \o " bytes)"]
        ELSE IF ~f.openOK THEN [r1 EXCEPT !.error = "open error: permission denied"]
        ELSE IF hv[2] # "" THEN [r1 EXCEPT !.error = "hash error: " \o hv[2]]
        ELSE IF ~h.ExtractStrings THEN r2
        ELSE IF ~f.seekOK THEN [r2 EXCEPT !.error = "seek error: illegal seek"]
        ELSE IF ~f.scanOK THEN [r2 EXCEPT !.error = "string extraction error: token too long"]
        ELSE r2

(***************************************************************************)
(* Hasher: HashProcessor.Process starts WorkerCount workers and a closer.  *)
(***************************************************************************)
\* worker: `for filePath := range fileChannel` receives a path and runs
\* processFile on it
HashRecv(w) ==
    /\ hpc[w] = "recv"
    /\ CanRecv("file")
    /\ LET p == Head(chan["file"]) IN
        /\ hres' = [hres EXCEPT ![w] = processFile(hp, p)]
        /\ hReceived' = Append(hReceived, p)
    /\ chan' = Recv(chan, "file")
    /\ hpc' = [hpc EXCEPT ![w] = "send"]
    /\ UNCHANGED <<cancelled, closed, hp, hSent, envPaths, notHashVars>>

\* a worker that skips the send for a failed file
HashSendDropErrors(w) ==
    /\ hpc[w] = "send"
    /\ IF hres[w].error # ""
       THEN /\ UNCHANGED <<chan, hSent>>
       ELSE /\ CanSend("result")
            /\ chan' = Send(chan, "result", hres[w])
            /\ hSent' = Append(hSent, hres[w])
    /\ hres' = [hres EXCEPT ![w] = NoResult]
    /\ hpc' = [hpc EXCEPT ![w] = "recv"]
    /\ UNCHANGED <<cancelled, closed, hp, hReceived, envPaths, notHashVars>>

\* worker: `resultChannel <- result`, a blocking send with no select
HashSend(w) ==
    /\ hpc[w] = "send"
    /\ CanSend("result")
    /\ chan' = Send(chan, "result", hres[w])
    /\ hSent' = Append(hSent, hres[w])
    /\ hres' = [hres EXCEPT ![w] = NoResult]
    /\ hpc' = [hpc EXCEPT ![w] = "recv"]
    /\ UNCHANGED <<cancelled, closed, hp, hReceived, envPaths, notHashVars>>

\* worker: the range loop ends when fileChannel is closed and drained;
\* the deferred wg.Done() runs
HashWorkerExit(w) ==
    /\ hpc[w] = "recv"
    /\ RecvClosed("file")
    /\ hpc' = [hpc EXCEPT ![w] = "done"]
    /\ UNCHANGED <<cancelled, chan, closed, hp, hres, hReceived, hSent, envPaths,
                   notHashVars>>

\* closer goroutine: wg.Wait(); close(resultChannel)
HashCloser ==
    /\ \A w \in Workers : hpc[w] = "done"
    /\ ~closed["result"]
    /\ closed' = [closed EXCEPT !["result"] = TRUE]
    /\ UNCHANGED <<cancelled, chan, hashVars, notHashVars>>

HashInit(configs) ==
    /\ hp \in configs
    /\ hpc = [w \in Workers |-> "recv"]
    /\ hres = [w \in Workers |-> NoResult]
    /\ hReceived = <<>>
    /\ hSent = <<>>
    /\ envPaths = 0

(***************************************************************************)
(* Environment of a stand-alone Hasher: a producer of paths and a consumer *)
(* that ranges over the result channel.                                    *)
(***************************************************************************)
EnvFeedPath ==
    /\ envPaths < MaxPaths
    /\ CanSend("file")
    /\ \E p \in Paths : chan' = Send(chan, "file", p)
    /\ envPaths' = envPaths + 1
    /\ UNCHANGED <<cancelled, closed, hp, hpc, hres, hReceived, hSent, notHashVars>>

EnvClosePaths ==
    /\ ~closed["file"]
    /\ closed' = [closed EXCEPT !["file"] = TRUE]
    /\ UNCHANGED <<cancelled, chan, hashVars, notHashVars>>

EnvDrainResults ==
    /\ CanRecv("result")
    /\ chan' = Recv(chan, "result")
    /\ UNCHANGED <<cancelled, closed, hashVars, notHashVars>>

(***************************************************************************)
(* Deduper: dedup.DeduplicationEngine.                                     *)
(***************************************************************************)
\* run 0 is the driver's Deduplicate call, wired between the Hasher and the
\* Shipper; runs 1 and 2 are calls on channels of the caller's own
Runs == {0, 1, 2, 3}
\* who holds d.lock for writing
RunHolder(r) == "run" \o ToString(r)

DedupTypes == {"hash", "path", "name", "content"}

\* the channels a Deduplicate call reads and returns
DedupIn(r) == CASE r = 0 -> "result" [] r = 1 -> "in1" [] r = 2 -> "in2" [] r = 3 -> "nil"
DedupOut(r) == CASE r = 0 -> "unique" [] r = 1 -> "out1" [] r = 2 -> "out2" [] r = 3 -> "out3"

\* a key function whose default case falls back to the path
getDeduplicationKeyDefaultPath(t, result) ==
    CASE t = "hash" -> result.hashAlgorithm \o ":" \o result.hash
      [] t = "path" -> result.path
      [] t = "name" -> result.name \o "#" \o ToString(result.size)
      [] OTHER      -> result.path

\* a key for NameDedup that leaves the size out
getDeduplicationKeyNoSize(t, result) ==
    CASE t = "hash" -> result.hashAlgorithm \o ":" \o result.hash
      [] t = "path" -> result.path
      [] t = "name" -> result.name
      [] OTHER      -> result.hashAlgorithm \o ":" \o result.hash

\* DeduplicationEngine.getDeduplicationKey
getDeduplicationKey(t, result) ==
    CASE t = "hash" -> result.hashAlgorithm \o ":" \o result.hash
      [] t = "path" -> result.path
      [] t = "name" -> result.name \o "#" \o ToString(result.size)
      [] OTHER      -> result.hashAlgorithm \o ":" \o result.hash

\* Deduplicate: the goroutine is started and the output channel returned
DedupStart(r) ==
    /\ dpc[r] = "idle"
    /\ dpc' = [dpc EXCEPT ![r] = "select"]
    /\ UNCHANGED <<cancelled, chan, closed, dedupType, seen, totalFiles, uniqueFiles,
                   lock, doneClosed, dcur, dlog, resetPc, resets, snapshot,
                   notDedupVars>>

\* outer select, case <-ctx.Done(): log under d.lock and return
DedupCtxDone(r) ==
    /\ dpc[r] = "select"
    /\ cancelled
    /\ lock = "free"
    /\ dpc' = [dpc EXCEPT ![r] = "exit"]
    /\ UNCHANGED <<cancelled, chan, closed, dedupType, seen, totalFiles, uniqueFiles,
                   lock, doneClosed, dcur, dlog, resetPc, resets, snapshot,
                   notDedupVars>>

\* outer select, case result, ok := <-inputChannel with ok
DedupRecv(r) ==
    /\ dpc[r] = "select"
    /\ CanRecv(DedupIn(r))
    /\ dcur' = [dcur EXCEPT ![r] = Head(chan[DedupIn(r)])]
    /\ chan' = Recv(chan, DedupIn(r))
    /\ dpc' = [dpc EXCEPT ![r] = "recheck"]
    /\ UNCHANGED <<cancelled, closed, dedupType, seen, totalFiles, uniqueFiles,
                   lock, doneClosed, dlog, resetPc, resets, snapshot,
                   notDedupVars>>

\* outer select, the receive with !ok: log the totals under d.lock and return
DedupInputClosed(r) ==
    /\ dpc[r] = "select"
    /\ RecvClosed(DedupIn(r))
    /\ lock = "free"
    /\ dpc' = [dpc EXCEPT ![r] = "exit"]
    /\ UNCHANGED <<cancelled, chan, closed, dedupType, seen, totalFiles, uniqueFiles,
                   lock, doneClosed, dcur, dlog, resetPc, resets, snapshot,
                   notDedupVars>>

\* a Deduplicate that does not look at ctx.Done() again after a receive
DedupRecheckIgnoresCtx(r) ==
    /\ dpc[r] = "recheck"
    /\ dpc' = [dpc EXCEPT ![r] = "count"]
    /\ UNCHANGED dcur
    /\ UNCHANGED <<cancelled, chan, closed, dedupType, seen, totalFiles, uniqueFiles,
                   lock, doneClosed, dlog, resetPc, resets, snapshot,
                   notDedupVars>>

\* the second, non-blocking check of ctx.Done() after a record was received
DedupRecheck(r) ==
    /\ dpc[r] = "recheck"
    /\ IF cancelled
       THEN /\ lock = "free"
            /\ dpc' = [dpc EXCEPT ![r] = "exit"]
            /\ dcur' = [dcur EXCEPT ![r] = NoResult]
       ELSE /\ dpc' = [dpc EXCEPT ![r] = "count"]
            /\ UNCHANGED dcur
    /\ UNCHANGED <<cancelled, chan, closed, dedupType, seen, totalFiles, uniqueFiles,
                   lock, doneClosed, dlog, resetPc, resets, snapshot,
                   notDedupVars>>

\* a count taken only of the records that carry no error
DedupCountSkipErrors(r) ==
    /\ dpc[r] = "count"
    /\ lock = "free"
    /\ lock' = RunHolder(r)
    /\ totalFiles' = IF dcur[r].error # "" THEN totalFiles ELSE totalFiles + 1
    /\ dlog' = [dlog EXCEPT ![r] = Append(@, [rec |-> dcur[r], fwd |-> FALSE])]
    /\ dpc' = [dpc EXCEPT ![r] = "locked"]
    /\ UNCHANGED <<cancelled, chan, closed, dedupType, seen, uniqueFiles, doneClosed,
                   dcur, resetPc, resets, snapshot, notDedupVars>>

\* d.lock.Lock(); d.totalFiles++
DedupCount(r) ==
    /\ dpc[r] = "count"
    /\ lock = "free"
    /\ lock' = RunHolder(r)
    /\ totalFiles' = totalFiles + 1
    /\ dlog' = [dlog EXCEPT ![r] = Append(@, [rec |-> dcur[r], fwd |-> FALSE])]
    /\ dpc' = [dpc EXCEPT ![r] = "locked"]
    /\ UNCHANGED <<cancelled, chan, closed, dedupType, seen, uniqueFiles, doneClosed,
                   dcur, resetPc, resets, snapshot, notDedupVars>>

\* a filter that never marks a key seen
DedupFilterNoMark(r) ==
    /\ dpc[r] = "locked"
    /\ lock = RunHolder(r)
    /\ lock' = "free"
    /\ LET key == getDeduplicationKey(dedupType, dcur[r]) IN
        IF dcur[r].error # ""
        THEN /\ dpc' = [dpc EXCEPT ![r] = "select"]
             /\ dcur' = [dcur EXCEPT ![r] = NoResult]
             /\ UNCHANGED <<seen, uniqueFiles>>
        ELSE IF key \notin seen
        THEN /\ seen' = seen
             /\ uniqueFiles' = uniqueFiles + 1
             /\ dpc' = [dpc EXCEPT ![r] = "presend"]
             /\ UNCHANGED dcur
        ELSE /\ dpc' = [dpc EXCEPT ![r] = "select"]
             /\ dcur' = [dcur EXCEPT ![r] = NoResult]
             /\ UNCHANGED <<seen, uniqueFiles>>
    /\ UNCHANGED <<cancelled, chan, closed, dedupType, totalFiles, doneClosed, dlog,
                   resetPc, resets, snapshot, notDedupVars>>

\* a filter that marks the key of an error record seen before dropping it
DedupFilterMarkErrors(r) ==
    /\ dpc[r] = "locked"
    /\ lock = RunHolder(r)
    /\ lock' = "free"
    /\ LET key == getDeduplicationKey(dedupType, dcur[r]) IN
        IF dcur[r].error # ""
        THEN /\ dpc' = [dpc EXCEPT ![r] = "select"]
             /\ dcur' = [dcur EXCEPT ![r] = NoResult]
             /\ seen' = seen \cup {key}
             /\ UNCHANGED uniqueFiles
        ELSE IF key \notin seen
        THEN /\ seen' = seen \cup {key}
             /\ uniqueFiles' = uniqueFiles + 1
             /\ dpc' = [dpc EXCEPT ![r] = "presend"]
             /\ UNCHANGED dcur
        ELSE /\ dpc' = [dpc EXCEPT ![r] = "select"]
             /\ dcur' = [dcur EXCEPT ![r] = NoResult]
             /\ UNCHANGED <<seen, uniqueFiles>>
    /\ UNCHANGED <<cancelled, chan, closed, dedupType, totalFiles, doneClosed, dlog,
                   resetPc, resets, snapshot, notDedupVars>>

\* still under d.lock: drop an error record; otherwise look the key up,
\* mark a new key seen and count it; unlock
DedupFilter(r) ==
    /\ dpc[r] = "locked"
    /\ lock = RunHolder(r)
    /\ lock' = "free"
    /\ LET key == getDeduplicationKey(dedupType, dcur[r]) IN
        IF dcur[r].error # ""
        THEN /\ dpc' = [dpc EXCEPT ![r] = "select"]
             /\ dcur' = [dcur EXCEPT ![r] = NoResult]
             /\ UNCHANGED <<seen, uniqueFiles>>
        ELSE IF key \notin seen
        THEN /\ seen' = seen \cup {key}
             /\ uniqueFiles' = uniqueFiles + 1
             /\ dpc' = [dpc EXCEPT ![r] = "presend"]
             /\ UNCHANGED dcur
        ELSE /\ dpc' = [dpc EXCEPT ![r] = "select"]
             /\ dcur' = [dcur EXCEPT ![r] = NoResult]
             /\ UNCHANGED <<seen, uniqueFiles>>
    /\ UNCHANGED <<cancelled, chan, closed, dedupType, totalFiles, doneClosed, dlog,
                   resetPc, resets, snapshot, notDedupVars>>

\* the non-blocking check of ctx.Done() before the send
DedupPreSend(r) ==
    /\ dpc[r] = "presend"
    /\ IF cancelled
       THEN /\ dpc' = [dpc EXCEPT ![r] = "exit"]
            /\ dcur' = [dcur EXCEPT ![r] = NoResult]
       ELSE /\ dpc' = [dpc EXCEPT ![r] = "send"]
            /\ UNCHANGED dcur
    /\ UNCHANGED <<cancelled, chan, closed, dedupType, seen, totalFiles, uniqueFiles,
                   lock, doneClosed, dlog, resetPc, resets, snapshot,
                   notDedupVars>>

\* a send that puts the record in front of what the output channel holds
DedupSendFront(r) ==
    /\ dpc[r] = "send"
    /\ CanSend(DedupOut(r))
    /\ chan' = [chan EXCEPT ![DedupOut(r)] = <<dcur[r]>> \o @]
    /\ dlog' = [dlog EXCEPT ![r][Len(dlog[r])].fwd = TRUE]
    /\ dcur' = [dcur EXCEPT ![r] = NoResult]
    /\ dpc' = [dpc EXCEPT ![r] = "select"]
    /\ UNCHANGED <<cancelled, closed, dedupType, seen, totalFiles, uniqueFiles,
                   lock, doneClosed, resetPc, resets, snapshot, notDedupVars>>

\* select, case outputChannel <- result
DedupSend(r) ==
    /\ dpc[r] = "send"
    /\ CanSend(DedupOut(r))
    /\ chan' = Send(chan, DedupOut(r), dcur[r])
    /\ dlog' = [dlog EXCEPT ![r][Len(dlog[r])].fwd = TRUE]
    /\ dcur' = [dcur EXCEPT ![r] = NoResult]
    /\ dpc' = [dpc EXCEPT ![r] = "select"]
    /\ UNCHANGED <<cancelled, closed, dedupType, seen, totalFiles, uniqueFiles,
                   lock, doneClosed, resetPc, resets, snapshot, notDedupVars>>

\* select, case <-ctx.Done() while trying to send
DedupSendCancelled(r) ==
    /\ dpc[r] = "send"
    /\ cancelled
    /\ dcur' = [dcur EXCEPT ![r] = NoResult]
    /\ dpc' = [dpc EXCEPT ![r] = "exit"]
    /\ UNCHANGED <<cancelled, chan, closed, dedupType, seen, totalFiles, uniqueFiles,
                   lock, doneClosed, dlog, resetPc, resets, snapshot,
                   notDedupVars>>

\* DedupCloseOutput without the close of the output channel
DedupCloseOutputSkip(r) ==
    /\ dpc[r] = "exit"
    /\ dpc' = [dpc EXCEPT ![r] = "closeDone"]
    /\ UNCHANGED <<cancelled, chan, closed, dedupType, seen, totalFiles, uniqueFiles,
                   lock, doneClosed, dcur, dlog, resetPc, resets, snapshot,
                   notDedupVars>>

\* the deferred function: close(outputChannel)
DedupCloseOutput(r) ==
    /\ dpc[r] = "exit"
    /\ closed' = [closed EXCEPT ![DedupOut(r)] = TRUE]
    /\ closeCount' = [closeCount EXCEPT ![DedupOut(r)] = @ + 1]
    /\ dpc' = [dpc EXCEPT ![r] = "closeDone"]
    /\ UNCHANGED <<cancelled, chan, dedupType, seen, totalFiles, uniqueFiles,
                   lock, doneClosed, dcur, dlog, resetPc, resets, snapshot,
                   doneCloseCount, notDedupCloseVars>>

\* DedupCloseDone with close(d.done) called whether d.done is closed or not
DedupCloseDoneUnchecked(r) ==
    /\ dpc[r] = "closeDone"
    /\ doneClosed' = TRUE
    /\ doneCloseCount' = [doneCloseCount EXCEPT ![resets] = @ + 1]
    /\ dpc' = [dpc EXCEPT ![r] = "finished"]
    /\ UNCHANGED <<cancelled, chan, closed, dedupType, seen, totalFiles, uniqueFiles,
                   lock, dcur, dlog, resetPc, resets, snapshot, closeCount,
                   notDedupCloseVars>>

\* the deferred function, under doneMutex: close d.done unless it is closed
DedupCloseDone(r) ==
    /\ dpc[r] = "closeDone"
    /\ doneClosed' = TRUE
    /\ doneCloseCount' = IF doneClosed THEN doneCloseCount
                       ELSE [doneCloseCount EXCEPT ![resets] = @ + 1]
    /\ dpc' = [dpc EXCEPT ![r] = "finished"]
    /\ UNCHANGED <<cancelled, chan, closed, dedupType, seen, totalFiles, uniqueFiles,
                   lock, dcur, dlog, resetPc, resets, snapshot, closeCount,
                   notDedupCloseVars>>

\* a GetStats that reads the counters without taking the lock
GetStatsNoLock ==
    /\ snapshot' = <<totalFiles, uniqueFiles>>
    /\ UNCHANGED <<cancelled, chan, closed, dedupType, seen, totalFiles, uniqueFiles,
                   lock, doneClosed, dpc, dcur, dlog, resetPc, resets,
                   notDedupVars>>

\* GetStats: both counters read under the read lock
GetStats ==
    /\ lock = "free"
    /\ snapshot' = <<totalFiles, uniqueFiles>>
    /\ UNCHANGED <<cancelled, chan, closed, dedupType, seen, totalFiles, uniqueFiles,
                   lock, doneClosed, dpc, dcur, dlog, resetPc, resets,
                   notDedupVars>>

\* Reset, under doneMutex: d.done = make(chan struct{})
ResetSwapDone ==
    /\ resetPc = "idle"
    /\ resets < MaxResets
    /\ resets' = resets + 1
    /\ doneClosed' = FALSE
    /\ resetPc' = "lock"
    /\ UNCHANGED <<cancelled, chan, closed, dedupType, seen, totalFiles, uniqueFiles,
                   lock, dpc, dcur, dlog, snapshot, notDedupVars>>

\* a Reset that keeps the map of seen keys
ResetLockKeepSeen ==
    /\ resetPc = "lock"
    /\ lock = "free"
    /\ lock' = "reset"
    /\ totalFiles' = 0
    /\ resetPc' = "clearing"
    /\ UNCHANGED <<cancelled, chan, closed, dedupType, seen, uniqueFiles, doneClosed, dpc,
                   dcur, dlog, resets, snapshot, notDedupVars>>

\* Reset: d.lock.Lock(); d.seen = make(map); d.totalFiles = 0
ResetLock ==
    /\ resetPc = "lock"
    /\ lock = "free"
    /\ lock' = "reset"
    /\ seen' = {}
    /\ totalFiles' = 0
    /\ resetPc' = "clearing"
    /\ UNCHANGED <<cancelled, chan, closed, dedupType, uniqueFiles, doneClosed, dpc,
                   dcur, dlog, resets, snapshot, notDedupVars>>

\* a Reset that returns without releasing d.lock
ResetUnlockKeepsLock ==
    /\ resetPc = "clearing"
    /\ lock = "reset"
    /\ uniqueFiles' = 0
    /\ resetPc' = "idle"
    /\ UNCHANGED <<cancelled, chan, closed, dedupType, seen, totalFiles, lock, doneClosed,
                   dpc, dcur, dlog, resets, snapshot, notDedupVars>>

\* Reset: d.uniqueFiles = 0 and the deferred d.lock.Unlock()
ResetUnlock ==
    /\ resetPc = "clearing"
    /\ lock = "reset"
    /\ uniqueFiles' = 0
    /\ lock' = "free"
    /\ resetPc' = "idle"
    /\ UNCHANGED <<cancelled, chan, closed, dedupType, seen, totalFiles, doneClosed,
                   dpc, dcur, dlog, resets, snapshot, notDedupVars>>

\* no channel has been closed
ClosesInit ==
    /\ closeCount = [c \in ChanNames |-> 0]
    /\ doneCloseCount = [g \in 0..MaxResets |-> 0]

DedupInit(types) ==
    /\ dedupType \in types
    /\ seen = {}
    /\ totalFiles = 0
    /\ uniqueFiles = 0
    /\ lock = "free"
    /\ doneClosed = FALSE
    /\ dpc = [r \in Runs |-> "idle"]
    /\ dcur = [r \in Runs |-> NoResult]
    /\ dlog = [r \in Runs |-> <<>>]
    /\ resetPc = "idle"
    /\ resets = 0
    /\ snapshot = <<0, 0>>

(***************************************************************************)
(* Environment of a stand-alone engine: per run a producer of records and  *)
(* a consumer of the output, and the owner of the context.                 *)
(***************************************************************************)
Result(path, name, size, hash, err) ==
    [path |-> path, name |-> name, size |-> size, hash |-> hash,
     hashAlgorithm |-> "sha256", error |-> err]

\* two copies of one content, another content at the first path, and a
\* record of the first file whose string extraction failed after hashing
DedupInputs ==
    { Result("/t/a.txt", "a.txt", 5, "sha256(hello)", ""),
      Result("/u/a.txt", "a.txt", 5, "sha256(hello)", ""),
      Result("/t/a.txt", "a.txt", 6, "sha256(hello!)", ""),
      Result("/t/a.txt", "a.txt", 5, "sha256(hello)", "string extraction error: token too long") }

EnvCloseInput(r) ==
    /\ ~closed[DedupIn(r)]
    /\ closed' = [closed EXCEPT ![DedupIn(r)] = TRUE]
    /\ UNCHANGED <<cancelled, chan, dedupVars, notDedupVars>>

\* the caller of Deduplicate ranges over the channel it was returned
EnvDrainOutput(r) ==
    /\ CanRecv(DedupOut(r))
    /\ chan' = Recv(chan, DedupOut(r))
    /\ UNCHANGED <<cancelled, closed, dedupVars, notDedupVars>>

\* the owner of the context calls cancel()
Cancel ==
    /\ ~cancelled
    /\ cancelled' = TRUE
    /\ bufAtCancel' = currentBatch
    /\ flightAtCancel' = IF spc = "attempt" THEN Len(posts) ELSE 0
    /\ UNCHANGED <<chan, closed, hashVars, dedupVars, shipVars, envUnique, walkVars,
                   driverVars, stringsVars, backoffVars, callerVars, closeVars>>

(***************************************************************************)
(* Shipper: api.APIClient.                                                 *)
(***************************************************************************)
\* what a.httpClient.Do can return: a transport error, or a response with a
\* status of one of these classes
Outcomes == {"neterr", "2xx", "4xx", "429", "5xx"}

ShipConfig(batchSize, maxRetries, authMethod, credentials, endpointOK) ==
    [BatchSize |-> batchSize, MaxRetries |-> maxRetries, AuthMethod |-> authMethod,
     Credentials |-> credentials, EndpointOK |-> endpointOK]

\* APIClient.addAuthToRequest: the error it returns, "" for nil.  Credentials
\* are modelled by their dynamic type.
addAuthToRequest(a) ==
    CASE a.AuthMethod = "bearer" ->
            IF a.Credentials = "string" THEN "" ELSE "bearer auth requires a string token"
      [] a.AuthMethod = "basic" ->
            IF a.Credentials \in {"BasicAuth", "map"} THEN ""
            ELSE IF a.Credentials = "map-incomplete"
            THEN "basic auth requires username and password"
            ELSE "basic auth requires BasicAuth struct or map with username/password"
      [] a.AuthMethod = "api-key" ->
            IF a.Credentials = "string" THEN "" ELSE "api-key auth requires a string key"
      [] OTHER -> "unsupported authentication method: " \o a.AuthMethod

\* sendBatch up to the call of sendWithRetries: the error it returns before
\* any request is issued, "" when the request was built
buildRequest(a) ==
    IF ~a.EndpointOK THEN "error creating request"
    ELSE IF addAuthToRequest(a) # "" THEN "authentication error: " \o addAuthToRequest(a)
    ELSE ""

\* the select with a default branch that offers an error to the error channel
OfferError(ch, e) == IF CanSend("apiErr") THEN Send(ch, "apiErr", e) ELSE ch

\* SendResults: wg.Add(1) and the ingest goroutine is started
ShipStart ==
    /\ spc = "idle"
    /\ spc' = "select"
    /\ UNCHANGED <<cancelled, chan, closed, ship, currentBatch, batchMutex, scur, sbatch,
                   sfrom, attempts, lastErr, posts, sReceived, waited, envUnique, notShipVars>>

\* select, case <-ctx.Done(): flush what is buffered
ShipCtxDone ==
    /\ spc = "select"
    /\ cancelled
    /\ spc' = "flush"
    /\ UNCHANGED <<cancelled, chan, closed, ship, currentBatch, batchMutex, scur, sbatch,
                   sfrom, attempts, lastErr, posts, sReceived, waited, envUnique, notShipVars>>

\* select, case result, ok := <-resultChannel with ok
ShipRecv ==
    /\ spc = "select"
    /\ CanRecv("unique")
    /\ scur' = Head(chan["unique"])
    /\ sReceived' = Append(sReceived, Head(chan["unique"]))
    /\ chan' = Recv(chan, "unique")
    /\ spc' = "add"
    /\ UNCHANGED <<cancelled, closed, ship, currentBatch, batchMutex, sbatch, sfrom,
                   attempts, lastErr, posts, waited, envUnique, notShipVars>>

\* select, the receive with !ok: flush what is buffered
ShipInputClosed ==
    /\ spc = "select"
    /\ RecvClosed("unique")
    /\ spc' = "flush"
    /\ UNCHANGED <<cancelled, chan, closed, ship, currentBatch, batchMutex, scur, sbatch,
                   sfrom, attempts, lastErr, posts, sReceived, waited, envUnique, notShipVars>>

\* ShipAdd with the batch sent only when it has grown past BatchSize
ShipAddOffByOne ==
    /\ spc = "add"
    /\ batchMutex = "free"
    /\ LET b == Append(currentBatch, scur) IN
        IF Len(b) > ship.BatchSize
        THEN /\ sbatch' = b
             /\ currentBatch' = <<>>
             /\ sfrom' = "add"
             /\ posts' = Append(posts, [batch |-> b, ctx |-> "ctx", n |-> 0,
                                    last |-> "", errs |-> 0])
             /\ spc' = "build"
        ELSE /\ currentBatch' = b
             /\ spc' = "select"
             /\ UNCHANGED <<sbatch, sfrom, posts>>
    /\ scur' = NoResult
    /\ UNCHANGED <<cancelled, chan, closed, ship, batchMutex, attempts, lastErr,
                   sReceived, waited, envUnique, notShipVars>>

\* addToBatch: lock, append; a full batch is copied, the buffer cleared and
\* the mutex released before sendBatch(ctx, batch) is called; otherwise the
\* deferred unlock runs and addToBatch returns nil
ShipAdd ==
    /\ spc = "add"
    /\ batchMutex = "free"
    /\ LET b == Append(currentBatch, scur) IN
        IF Len(b) >= ship.BatchSize
        THEN /\ sbatch' = b
             /\ currentBatch' = <<>>
             /\ sfrom' = "add"
             /\ posts' = Append(posts, [batch |-> b, ctx |-> "ctx", n |-> 0,
                                    last |-> "", errs |-> 0])
             /\ spc' = "build"
        ELSE /\ currentBatch' = b
             /\ spc' = "select"
             /\ UNCHANGED <<sbatch, sfrom, posts>>
    /\ scur' = NoResult
    /\ UNCHANGED <<cancelled, chan, closed, ship, batchMutex, attempts, lastErr,
                   sReceived, waited, envUnique, notShipVars>>

\* flushBatch: lock; nothing buffered: return nil (the deferred unlock runs);
\* otherwise copy the batch, clear the buffer and call
\* sendBatch(context.Background(), batch) with the mutex held
ShipFlush ==
    /\ spc = "flush"
    /\ batchMutex = "free"
    /\ IF Len(currentBatch) = 0
       THEN /\ spc' = "closing"
            /\ UNCHANGED <<batchMutex, sbatch, sfrom, posts, currentBatch>>
       ELSE /\ batchMutex' = "ingest"
            /\ sbatch' = currentBatch
            /\ currentBatch' = <<>>
            /\ sfrom' = "flush"
            /\ posts' = Append(posts, [batch |-> currentBatch, ctx |-> "background", n |-> 0,
                                    last |-> "", errs |-> 0])
            /\ spc' = "build"
    /\ UNCHANGED <<cancelled, chan, closed, ship, scur, attempts, lastErr, sReceived,
                   waited, envUnique, notShipVars>>

\* sendBatch: an empty batch is skipped; marshal, build the request, add the
\* authentication; then sendWithRetries starts with retries = 0
ShipBuild ==
    /\ spc = "build"
    /\ attempts' = <<>>
    /\ IF Len(sbatch) = 0
       THEN /\ lastErr' = ""
            /\ spc' = "sent"
       ELSE IF buildRequest(ship) # ""
       THEN /\ lastErr' = buildRequest(ship)
            /\ spc' = "sent"
       ELSE /\ lastErr' = ""
            /\ spc' = "attempt"
    /\ posts' = IF Len(sbatch) > 0 /\ buildRequest(ship) # ""
                THEN [posts EXCEPT ![Len(posts)].last = "build"] ELSE posts
    /\ UNCHANGED <<cancelled, chan, closed, ship, currentBatch, batchMutex, scur, sbatch,
                   sfrom, sReceived, waited, envUnique, notShipVars>>

\* the request of the batch being sent is bound to the cancelled context
BoundToCancelled == sfrom = "add" /\ cancelled

\* ShipAttempt without the break on a 4xx response: a client error is retried
\* like a server error
ShipAttemptRetry4xx ==
    /\ spc = "attempt"
    /\ \E o \in Outcomes :
        /\ BoundToCancelled => o = "neterr"
        /\ attempts' = Append(attempts, o)
        /\ lastErr' = IF o = "2xx" THEN ""
                      ELSE IF o = "neterr" THEN "request error" ELSE "API error"
        /\ spc' = IF o = "2xx" \/ Len(attempts) + 1 > ship.MaxRetries
                  THEN "sent" ELSE "attempt"
        /\ posts' = [posts EXCEPT ![Len(posts)].n = @ + 1, ![Len(posts)].last = o]
    /\ UNCHANGED <<cancelled, chan, closed, ship, currentBatch, batchMutex, scur, sbatch,
                   sfrom, sReceived, waited, envUnique, notShipVars>>

\* ShipAttempt returning lastErr, not nil, after a 2xx response
ShipAttemptKeepErr ==
    /\ spc = "attempt"
    /\ \E o \in Outcomes :
        /\ BoundToCancelled => o = "neterr"
        /\ attempts' = Append(attempts, o)
        /\ lastErr' = IF o = "2xx" THEN lastErr
                      ELSE IF o = "neterr" THEN "request error" ELSE "API error"
        /\ spc' = IF o \in {"2xx", "4xx"} \/ Len(attempts) + 1 > ship.MaxRetries
                  THEN "sent" ELSE "attempt"
        /\ posts' = [posts EXCEPT ![Len(posts)].n = @ + 1, ![Len(posts)].last = o]
    /\ UNCHANGED <<cancelled, chan, closed, ship, currentBatch, batchMutex, scur, sbatch,
                   sfrom, sReceived, waited, envUnique, notShipVars>>

\* sendWithRetries, one iteration: the backoff sleep when retries > 0, then
\* a.httpClient.Do(req).  2xx returns nil; a 4xx other than 429 breaks out of
\* the loop; anything else continues while retries <= maxRetries
ShipAttempt ==
    /\ spc = "attempt"
    /\ \E o \in Outcomes :
        /\ BoundToCancelled => o = "neterr"
        /\ attempts' = Append(attempts, o)
        /\ lastErr' = IF o = "2xx" THEN ""
                      ELSE IF o = "neterr" THEN "request error" ELSE "API error"
        /\ spc' = IF o \in {"2xx", "4xx"} \/ Len(attempts) + 1 > ship.MaxRetries
                  THEN "sent" ELSE "attempt"
        /\ posts' = [posts EXCEPT ![Len(posts)].n = @ + 1, ![Len(posts)].last = o]
    /\ UNCHANGED <<cancelled, chan, closed, ship, currentBatch, batchMutex, scur, sbatch,
                   sfrom, sReceived, waited, envUnique, notShipVars>>

\* ShipSent with a blocking send of the error: it waits for room in the
\* error channel
ShipSentBlocking ==
    /\ spc = "sent"
    /\ lastErr # "" => CanSend("apiErr")
    /\ batchMutex' = "free"
    /\ chan' = IF lastErr # "" THEN Send(chan, "apiErr", lastErr) ELSE chan
    /\ sbatch' = <<>>
    /\ attempts' = <<>>
    /\ lastErr' = ""
    /\ sfrom' = "add"
    /\ spc' = IF sfrom = "add" THEN "select" ELSE "closing"
    /\ posts' = IF lastErr # "" THEN [posts EXCEPT ![Len(posts)].errs = @ + 1] ELSE posts
    /\ UNCHANGED <<cancelled, closed, ship, currentBatch, scur, sReceived, waited,
                   envUnique, notShipVars>>

\* ShipSent putting the records of a failed batch back into the buffer
ShipSentRequeue ==
    /\ spc = "sent"
    /\ batchMutex' = "free"
    /\ chan' = IF lastErr # "" THEN OfferError(chan, lastErr) ELSE chan
    /\ sbatch' = <<>>
    /\ currentBatch' = IF lastErr # "" THEN sbatch \o currentBatch ELSE currentBatch
    /\ attempts' = <<>>
    /\ lastErr' = ""
    /\ sfrom' = "add"
    /\ spc' = IF sfrom = "add" THEN "select" ELSE "closing"
    /\ posts' = IF lastErr # "" THEN [posts EXCEPT ![Len(posts)].errs = @ + 1] ELSE posts
    /\ UNCHANGED <<cancelled, closed, ship, scur, sReceived, waited,
                   envUnique, notShipVars>>

\* sendBatch has returned.  In addToBatch the mutex is taken again, the
\* error returned and the deferred unlock runs; in flushBatch the error is
\* returned and the deferred unlock runs.  SendResults offers a non-nil
\* error to the error channel, then goes on (addToBatch) or returns (flush);
\* the locals of the calls that returned are gone
ShipSent ==
    /\ spc = "sent"
    /\ batchMutex' = "free"
    /\ chan' = IF lastErr # "" THEN OfferError(chan, lastErr) ELSE chan
    /\ sbatch' = <<>>
    /\ attempts' = <<>>
    /\ lastErr' = ""
    /\ sfrom' = "add"
    /\ spc' = IF sfrom = "add" THEN "select" ELSE "closing"
    /\ posts' = IF lastErr # "" THEN [posts EXCEPT ![Len(posts)].errs = @ + 1] ELSE posts
    /\ UNCHANGED <<cancelled, closed, ship, currentBatch, scur, sReceived, waited,
                   envUnique, notShipVars>>

\* ShipCloseErrors with the error channel left open
ShipCloseErrorsSkip ==
    /\ spc = "closing"
    /\ spc' = "wgDone"
    /\ UNCHANGED <<cancelled, chan, closed, ship, currentBatch, batchMutex, scur, sbatch,
                   sfrom, attempts, lastErr, posts, sReceived, waited, envUnique, notShipVars>>

\* the deferred close(errorChannel)
ShipCloseErrors ==
    /\ spc = "closing"
    /\ closed' = [closed EXCEPT !["apiErr"] = TRUE]
    /\ spc' = "wgDone"
    /\ UNCHANGED <<cancelled, chan, ship, currentBatch, batchMutex, scur, sbatch,
                   sfrom, attempts, lastErr, posts, sReceived, waited, envUnique, notShipVars>>

\* the deferred a.wg.Done()
ShipDone ==
    /\ spc = "wgDone"
    /\ spc' = "done"
    /\ UNCHANGED <<cancelled, chan, closed, ship, currentBatch, batchMutex, scur, sbatch,
                   sfrom, attempts, lastErr, posts, sReceived, waited, envUnique, notShipVars>>

\* APIClient.Wait returns to the caller of SendResults: a.wg.Wait()
ShipWait ==
    /\ spc = "done"
    /\ ~waited
    /\ waited' = TRUE
    /\ UNCHANGED <<cancelled, chan, closed, ship, currentBatch, batchMutex, scur, sbatch,
                   sfrom, attempts, lastErr, posts, sReceived, spc, envUnique, notShipVars>>

ShipInit(configs) ==
    /\ ship \in configs
    /\ spc = "idle"
    /\ currentBatch = <<>>
    /\ batchMutex = "free"
    /\ scur = NoResult
    /\ sbatch = <<>>
    /\ sfrom = "add"
    /\ attempts = <<>>
    /\ lastErr = ""
    /\ posts = <<>>
    /\ sReceived = <<>>
    /\ waited = FALSE

(***************************************************************************)
(* Environment of a stand-alone Shipper: a producer of distinct records    *)
(* and a reader of the error channel.                                      *)
(***************************************************************************)
\* the n-th record the producer sends
ShipRecord(n) ==
    [path |-> "/f/" \o ToString(n), name |-> ToString(n), size |-> n,
     hash |-> "sha256(" \o ToString(n) \o ")", hashAlgorithm |-> "sha256", error |-> ""]

EnvFeedUnique ==
    /\ envUnique < MaxShipRecords
    /\ CanSend("unique")
    /\ chan' = Send(chan, "unique", ShipRecord(envUnique + 1))
    /\ envUnique' = envUnique + 1
    /\ UNCHANGED <<cancelled, closed, shipVars, notShipVars>>

EnvCloseUnique ==
    /\ ~closed["unique"]
    /\ closed' = [closed EXCEPT !["unique"] = TRUE]
    /\ UNCHANGED <<cancelled, chan, envUnique, shipVars, notShipVars>>

\* the driver's monitor: for err := range apiErrors
EnvDrainApiErrors ==
    /\ CanRecv("apiErr")
    /\ chan' = Recv(chan, "apiErr")
    /\ UNCHANGED <<cancelled, closed, envUnique, shipVars, notShipVars>>

\* the client configurations tried: the driver's (a string credential with
\* each of its three --auth-method values), the tests' basic credentials, and
\* an endpoint http.NewRequestWithContext rejects
ShipConfigs ==
    { ShipConfig(b, m, c[1], c[2], c[3]) :
        b \in 1..MaxBatchSize, m \in 0..MaxRetriesBound,
        c \in { <<"bearer", "string", TRUE>>, <<"api-key", "string", TRUE>>,
                <<"basic", "string", TRUE>>, <<"basic", "BasicAuth", TRUE>>,
                <<"bearer", "string", FALSE>> } }

(***************************************************************************)
(* The file system the Walker scans.  A name is the sequence of its bytes; *)
(* a path is the sequence of its components, an absolute path starting     *)
(* with the empty component.                                               *)
(***************************************************************************)
Dot == <<".">>
DotDot == <<".", ".">>

\* isHiddenFile
isHiddenFile(filename) == Len(filename) > 0 /\ filename[1] = "."

\* filepath.Join of a directory and an entry name, cleaned
Join(path, name) == IF path = <<Dot>> THEN <<name>> ELSE Append(path, name)

\* the path as the string filepath.Match is given
RECURSIVE PathString(_)
PathString(path) ==
    IF Len(path) = 1 THEN path[1] ELSE path[1] \o <<"/">> \o PathString(Tail(path))

Dir(path, entries) ==
    [path |-> path, kind |-> "dir", entries |-> entries, target |-> <<>>, size |-> 0]
Reg(path) ==
    [path |-> path, kind |-> "file", entries |-> <<>>, target |-> <<>>, size |-> 1]
Link(path, target) ==
    [path |-> path, kind |-> "link", entries |-> <<>>, target |-> target, size |-> 0]

R == << <<>>, <<"r">> >>
X == << <<>>, <<"x">> >>

\* /r holds a hidden file, a file, a link to a directory, a link to a file
\* and a directory s, which holds a file and a directory d with a file;
\* the working directory and its parent hold a file each
Tree ==
    { Dir(R, << <<".", "h">>, <<"a">>, <<"l", "d">>, <<"l", "f">>, <<"s">> >>),
      Reg(R \o << <<".", "h">> >>),
      Reg(R \o << <<"a">> >>),
      Link(R \o << <<"l", "d">> >>, X),
      Link(R \o << <<"l", "f">> >>, X \o << <<"t">> >>),
      Dir(R \o << <<"s">> >>, << <<"b">>, <<"d">> >>),
      Reg(R \o << <<"s">>, <<"b">> >>),
      Dir(R \o << <<"s">>, <<"d">> >>, << <<"c">> >>),
      Reg(R \o << <<"s">>, <<"d">>, <<"c">> >>),
      Dir(X, << <<"t">> >>),
      Reg(X \o << <<"t">> >>),
      Dir(<<Dot>>, << <<".", "h">>, <<"a">> >>),
      Reg(<< <<".", "h">> >>),
      Reg(<< <<"a">> >>),
      Dir(<<DotDot>>, << <<"a">> >>),
      Reg(<<DotDot, <<"a">> >>) }

\* os.Lstat succeeds
Exists(path) == \E n \in Tree : n.path = path
\* os.Lstat; os.Stat of a path that is no link
Lstat(path) == CHOOSE n \in Tree : n.path = path

\* filepath.Match for patterns made of literal bytes, '*' and an
\* unterminated '[': a malformed pattern gives ErrBadPattern and no match
Malformed(pattern) == \E i \in DOMAIN pattern : pattern[i] = "["

RECURSIVE Glob(_, _)
Glob(pattern, name) ==
    IF pattern = <<>> THEN name = <<>>
    ELSE IF Head(pattern) = "*"
    THEN \E k \in 0..Len(name) :
            /\ \A i \in 1..k : name[i] # "/"
            /\ Glob(Tail(pattern), SubSeq(name, k + 1, Len(name)))
    ELSE name # <<>> /\ Head(name) = Head(pattern) /\ Glob(Tail(pattern), Tail(name))

Match(pattern, name) ==
    IF Malformed(pattern) THEN [matched |-> FALSE, err |-> TRUE]
    ELSE [matched |-> Glob(pattern, name), err |-> FALSE]

\* NewFileScanner
NewFileScanner(paths) ==
    [RootPaths |-> paths, ExcludePaths |-> <<>>, MaxDepth |-> -1, MaxFileSize |-> -1,
     SkipSymlinks |-> TRUE, SkipHiddenFiles |-> TRUE]

\* FileScanner.shouldExclude
shouldExclude(s, path) ==
    \E i \in DOMAIN s.ExcludePaths :
        \/ LET m == Match(s.ExcludePaths[i], Base(path)) IN ~m.err /\ m.matched
        \/ LET m == Match(s.ExcludePaths[i], PathString(path)) IN ~m.err /\ m.matched

(***************************************************************************)
(* Walker: scanner.FileScanner.  A root task's walk is the sequence of     *)
(* what scanPath comes to do for the entries under its root: hand a file   *)
(* to processFile, or report an error.                                     *)
(***************************************************************************)
Roots == 1..MaxRoots

FileEvent(p) == [kind |-> "file", path |-> p]
ErrEvent == [kind |-> "err", path |-> ""]

\* FileScanner.processFile up to its send: the file it hands to the channel,
\* if any.  The poll of ctx.Done() and the send are steps of the task
scanProcessFile(s, path, info) ==
    IF info.kind # "file" THEN <<>>
    ELSE IF s.MaxFileSize > 0 /\ info.size > s.MaxFileSize THEN <<>>
    ELSE IF shouldExclude(s, path) THEN <<>>
    ELSE <<FileEvent(path)>>

RECURSIVE scanPath(_, _, _), scanEntries(_, _, _, _)

\* a scanPath that stops one level early
scanPathOffByOne(s, path, depth) ==
    IF s.MaxDepth >= 0 /\ depth >= s.MaxDepth THEN <<>>
    ELSE IF ~Exists(path) THEN <<ErrEvent>>
    ELSE IF s.SkipHiddenFiles /\ isHiddenFile(Base(path)) THEN <<>>
    ELSE LET info == Lstat(path)
             link == info.kind = "link"
             real == IF link THEN info.target ELSE path
         IN  IF link /\ s.SkipSymlinks THEN <<>>
             ELSE IF ~Exists(real) THEN <<ErrEvent>>
             ELSE IF shouldExclude(s, real) THEN <<>>
             ELSE IF Lstat(real).kind = "dir"
             THEN scanEntries(s, real, Lstat(real).entries, depth)
             ELSE scanProcessFile(s, real, Lstat(real))

\* FileScanner.scanPath: what the task comes to do, in order: the files it
\* hands to processFile's send and the errors it offers
scanPath(s, path, depth) ==
    IF s.MaxDepth >= 0 /\ depth > s.MaxDepth THEN <<>>
    ELSE IF ~Exists(path) THEN <<ErrEvent>>
    ELSE IF s.SkipHiddenFiles /\ isHiddenFile(Base(path)) THEN <<>>
    ELSE LET info == Lstat(path)
             link == info.kind = "link"
             real == IF link THEN info.target ELSE path
         IN  IF link /\ s.SkipSymlinks THEN <<>>
             ELSE IF ~Exists(real) THEN <<ErrEvent>>
             ELSE IF shouldExclude(s, real) THEN <<>>
             ELSE IF Lstat(real).kind = "dir"
             THEN scanEntries(s, real, Lstat(real).entries, depth)
             ELSE scanProcessFile(s, real, Lstat(real))

\* scanPath, the loop over the entries of a directory: entry.Info() is the
\* entry's own metadata, so a link is neither a directory nor a regular file
scanEntries(s, path, entries, depth) ==
    IF entries = <<>> THEN <<>>
    ELSE LET name == Head(entries)
             entryPath == Join(path, name)
             entryInfo == Lstat(entryPath)
             first == IF s.SkipHiddenFiles /\ isHiddenFile(name) THEN <<>>
                      ELSE IF entryInfo.kind = "dir" THEN scanPath(s, entryPath, depth + 1)
                      ELSE scanProcessFile(s, entryPath, entryInfo)
         IN  first \o scanEntries(s, path, Tail(entries), depth)

\* scanPath, one entry.  An error is offered to the error channel and dropped
\* when that channel is full.  processFile first polls ctx.Done() and returns
\* when the context is cancelled; the loop over the entries goes on
WalkStep(r) ==
    /\ wpc[r] = "walk"
    /\ Len(wtodo[r]) > 0
    /\ LET e == Head(wtodo[r]) IN
        IF e.kind = "err"
        THEN /\ chan' = IF CanSend("scanErr") THEN Send(chan, "scanErr", "scan error") ELSE chan
             /\ wdropped' = IF CanSend("scanErr") THEN wdropped ELSE wdropped + 1
             /\ wtodo' = [wtodo EXCEPT ![r] = Tail(@)]
             /\ UNCHANGED wpc
        ELSE IF cancelled
        THEN /\ wtodo' = [wtodo EXCEPT ![r] = Tail(@)]
             /\ UNCHANGED <<chan, wpc, wdropped>>
        ELSE /\ wpc' = [wpc EXCEPT ![r] = "send"]
             /\ UNCHANGED <<chan, wtodo, wdropped>>
    /\ UNCHANGED <<cancelled, closed, scanCloser, scanner, wsent, notWalkVars>>

\* processFile, select, case fileChannel <- path
WalkSend(r) ==
    /\ wpc[r] = "send"
    /\ CanSend("file")
    /\ chan' = Send(chan, "file", Head(wtodo[r]).path)
    /\ wsent' = Append(wsent, Head(wtodo[r]).path)
    /\ wtodo' = [wtodo EXCEPT ![r] = Tail(@)]
    /\ wpc' = [wpc EXCEPT ![r] = "walk"]
    /\ UNCHANGED <<cancelled, closed, scanCloser, wdropped, scanner, notWalkVars>>

\* a processFile whose send does not wait for s.ctx.Done()
WalkSendCancelledNever(r) ==
    /\ wpc[r] = "send"
    /\ cancelled
    /\ FALSE
    /\ UNCHANGED vars

\* processFile, select, case <-s.ctx.Done()
WalkSendCancelled(r) ==
    /\ wpc[r] = "send"
    /\ cancelled
    /\ wtodo' = [wtodo EXCEPT ![r] = Tail(@)]
    /\ wpc' = [wpc EXCEPT ![r] = "walk"]
    /\ UNCHANGED <<cancelled, chan, closed, scanCloser, wdropped, scanner, wsent, notWalkVars>>

\* scanPath of the root has returned: the deferred s.wg.Done()
WalkDone(r) ==
    /\ wpc[r] = "walk"
    /\ Len(wtodo[r]) = 0
    /\ wpc' = [wpc EXCEPT ![r] = "done"]
    /\ UNCHANGED <<cancelled, chan, closed, wtodo, scanCloser, wdropped, scanner, wsent, notWalkVars>>

\* the closing goroutine of Scan: s.wg.Wait(); close(fileChannel)
ScanCloseFiles ==
    /\ scanCloser = "wait"
    /\ \A r \in Roots : wpc[r] = "done"
    /\ closed' = [closed EXCEPT !["file"] = TRUE]
    /\ scanCloser' = "closeErrors"
    /\ UNCHANGED <<cancelled, chan, wtodo, wpc, wdropped, scanner, wsent, notWalkVars>>

\* the closing goroutine of Scan: close(errorChannel)
ScanCloseErrors ==
    /\ scanCloser = "closeErrors"
    /\ closed' = [closed EXCEPT !["scanErr"] = TRUE]
    /\ scanCloser' = "done"
    /\ UNCHANGED <<cancelled, chan, wtodo, wpc, wdropped, scanner, wsent, notWalkVars>>

\* Scan has started one task per root and the closing goroutine
WalkInit(walks) ==
    /\ wtodo \in [Roots -> walks]
    /\ wpc = [r \in Roots |-> "walk"]
    /\ scanCloser = "wait"
    /\ wdropped = 0
    /\ scanner = NewFileScanner(<<>>)
    /\ wsent = <<>>

\* no Scan is running
WalkIdle ==
    /\ wtodo = [r \in Roots |-> <<>>]
    /\ wpc = [r \in Roots |-> "done"]
    /\ scanCloser = "done"
    /\ wdropped = 0
    /\ scanner = NewFileScanner(<<>>)
    /\ wsent = <<>>

\* a consumer of the file channel takes a path
EnvDrainFiles ==
    /\ CanRecv("file")
    /\ chan' = Recv(chan, "file")
    /\ UNCHANGED <<cancelled, closed, walkVars, notWalkVars>>

\* the driver's monitor: for err := range scanErrors
MonitorScanErrors ==
    /\ CanRecv("scanErr")
    /\ chan' = Recv(chan, "scanErr")
    /\ UNCHANGED <<cancelled, closed, walkVars, notWalkVars>>

(***************************************************************************)
(* HashProcessor.extractStrings: a bufio.Scanner over the reader with      *)
(* scanStrings as its split function.  A byte is a number in 0..255, a     *)
(* string is a sequence of bytes.                                          *)
(***************************************************************************)
\* r > 127 || !unicode.IsPrint(r) is false: for a single byte IsPrint holds
\* exactly for U+0020..U+007E
Printable(b) == b <= 127 /\ b >= 32 /\ b <= 126

\* the first index >= i of data that holds a byte for which p is FALSE
\* (printable when p = TRUE), Len(data) + 1 if there is none: the two loops
\* of scanStrings
RECURSIVE SkipWhile(_, _, _)
SkipWhile(data, i, p) ==
    IF i <= Len(data) /\ Printable(data[i]) = p THEN SkipWhile(data, i + 1, p) ELSE i

\* HashProcessor.scanStrings: advance and token; <<>> is the nil token.
\* start and end are the code's, counted from 0
scanStrings(data, atEOF) ==
    LET start == SkipWhile(data, 1, FALSE) - 1
        end == SkipWhile(data, start + 1, TRUE) - 1
    IN  IF atEOF /\ start >= Len(data) THEN [advance |-> Len(data), token |-> <<>>]
        ELSE IF end > start THEN [advance |-> end, token |-> SubSeq(data, start + 1, end)]
        ELSE [advance |-> start, token |-> <<>>]

\* one scanner.Scan() that calls the split function, with the body of the
\* for loop when it returns a token: the Scanner calls split when it holds
\* data or has met EOF; a nil token at EOF ends the loop, a nil token
\* before EOF leaves the Scanner asking for more data
ExScan ==
    /\ exPc = "scan"
    /\ scanBuf # <<>> \/ scanEOF
    /\ LET s == scanStrings(scanBuf, scanEOF)
           str == s.token
       IN  /\ scanBuf' = SubSeq(scanBuf, s.advance + 1, Len(scanBuf))
           /\ IF str # <<>> /\ Len(str) >= StringMinLength /\ str \notin seenStrings
              THEN /\ exResult' = Append(exResult, str)
                   /\ seenStrings' = seenStrings \cup {str}
                   /\ exPc' = IF Len(exResult') >= StringsCap THEN "done" ELSE "scan"
              ELSE /\ UNCHANGED <<exResult, seenStrings>>
                   /\ exPc' = IF str # <<>> THEN "scan"
                              ELSE IF scanEOF THEN "done" ELSE "read"
    /\ UNCHANGED <<exContent, StringMinLength, rdRest, scanEOF, notStringsVars>>

\* the Scanner must read: split asked for more data, or the Scanner holds
\* none and has not met EOF
MustRead == exPc = "read" \/ (exPc = "scan" /\ scanBuf = <<>> /\ ~scanEOF)

\* the room the Scanner offers to r.Read: the rest of its buffer, which it
\* doubles first when it is full
ScanRoom ==
    IF Len(scanBuf) >= ScanBufSize THEN ScanBufSize ELSE ScanBufSize - Len(scanBuf)

\* r.Read returns n > 0 bytes, at most what the Scanner has room for
ExRead ==
    /\ MustRead
    /\ rdRest # <<>>
    /\ \E n \in 1..ScanRoom :
          /\ n <= Len(rdRest)
          /\ scanBuf' = scanBuf \o SubSeq(rdRest, 1, n)
          /\ rdRest' = SubSeq(rdRest, n + 1, Len(rdRest))
    /\ exPc' = "scan"
    /\ UNCHANGED <<exContent, StringMinLength, scanEOF, exResult, seenStrings,
                   notStringsVars>>

\* r.Read returns 0, io.EOF
ExReadEOF ==
    /\ MustRead
    /\ rdRest = <<>>
    /\ scanEOF' = TRUE
    /\ exPc' = "scan"
    /\ UNCHANGED <<exContent, StringMinLength, rdRest, scanBuf, exResult, seenStrings,
                   notStringsVars>>

\* extractStrings is called with a reader that holds content
StringsInit(contents, lengths) ==
    /\ exContent \in contents
    /\ StringMinLength \in lengths
    /\ rdRest = exContent
    /\ scanBuf = <<>>
    /\ scanEOF = FALSE
    /\ exResult = <<>>
    /\ seenStrings = {}
    /\ exPc = "scan"

\* no call of extractStrings (NewHashProcessor sets StringMinLength to 4)
StringsIdle ==
    /\ exContent = <<>>
    /\ StringMinLength = 4
    /\ rdRest = <<>>
    /\ scanBuf = <<>>
    /\ scanEOF = FALSE
    /\ exResult = <<>>
    /\ seenStrings = {}
    /\ exPc = "done"

(***************************************************************************)
(* calculateBackoff.  A time.Duration is a signed 64-bit number of         *)
(* nanoseconds.  The model writes such a number as [m, e], the number      *)
(* m * 2^e with |m| < 2^30, which holds every value the function meets.    *)
(***************************************************************************)
RECURSIVE Pow2(_)
Pow2(k) == IF k = 0 THEN 1 ELSE 2 * Pow2(k - 1)

Dur(m, e) == IF m = 0 THEN [m |-> 0, e |-> 0] ELSE [m |-> m, e |-> e]

\* m * 2^e as an int64 holds it: the bits from 2^64 up are lost and bit 63
\* is the sign, so 64 - e bits of m are kept
Int64(m, e) ==
    IF e >= 64 THEN Dur(0, 0)
    ELSE IF 64 - e > 30 THEN Dur(m, e)
    ELSE LET r == m % Pow2(64 - e)
         IN  Dur(IF r >= Pow2(63 - e) THEN r - Pow2(64 - e) ELSE r, e)

\* d * c for an integer constant c, in int64
Mul(d, c) == Int64(d.m * c, d.e)

\* x > y for positive m1 * 2^e1 and m2 * 2^e2
GreaterMagnitude(m1, e1, m2, e2) ==
    IF e1 >= e2
    THEN IF e1 - e2 >= 30 \/ m1 >= Pow2(30 - (e1 - e2)) THEN TRUE
         ELSE m1 * Pow2(e1 - e2) > m2
    ELSE IF e2 - e1 >= 30 \/ m2 >= Pow2(30 - (e2 - e1)) THEN FALSE
         ELSE m1 > m2 * Pow2(e2 - e1)

Sign(d) == IF d.m > 0 THEN 1 ELSE IF d.m < 0 THEN -1 ELSE 0

\* x > y for durations
Greater(x, y) ==
    IF Sign(x) # Sign(y) THEN Sign(x) > Sign(y)
    ELSE IF Sign(x) = 1 THEN GreaterMagnitude(x.m, x.e, y.m, y.e)
    ELSE IF Sign(x) = -1 THEN GreaterMagnitude(-y.m, y.e, -x.m, x.e)
    ELSE FALSE

\* time.Duration(float64(backoff) * (0.8 + 0.4*rand.Float64())) where the
\* factor is f tenths: the product, cut towards zero.  The division is
\* exact unless backoff has wrapped around; then the result is cut to a
\* multiple of 2^e (float64 rounds the same product to 53 bits).  A product
\* outside the int64 range is converted as the platform does: to the
\* smallest int64 on amd64, to the nearest int64 on arm64
Jittered(backoff, f, platform) ==
    LET a == backoff.m * f
        q == IF a >= 0 THEN a \div 10 ELSE -((-a) \div 10)
        absq == IF q >= 0 THEN q ELSE -q
        outside == q # 0 /\ 63 - backoff.e <= 30 /\ absq >= Pow2(63 - backoff.e)
    IN  IF ~outside THEN Dur(q, backoff.e)
        ELSE IF q < 0 \/ platform = "amd64" THEN Dur(-1, 63)
        ELSE Dur(Pow2(30) - 1, 33)

\* calculateBackoff(retry, maxBackoff), f and platform as in Jittered.
\* 1<<uint(retry) is a shift of the int64 1
calculateBackoff(n, cap, f, platform) ==
    LET backoff == Mul(Mul(Int64(1, n), 100), 1000000)
        jitter == Jittered(backoff, f, platform)
    IN  IF Greater(jitter, cap) THEN cap ELSE jitter

NoDelay == [m |-> 0, e |-> -1]

\* the jitter factors tried, in tenths: rand.Float64() = 0, 0.5 and 0.75
Factors == {8, 10, 11}

\* one call of calculateBackoff
CallBackoff ==
    /\ delay = NoDelay
    /\ \E f \in Factors, platform \in {"amd64", "arm64"} :
          delay' = calculateBackoff(retry, maxBackoff, f, platform)
    /\ UNCHANGED <<retry, maxBackoff, notBackoffVars>>

\* ms milliseconds: ms * 1000000 nanoseconds
Milliseconds(ms) == Dur(ms * 15625, 6)

\* the values of maxBackoff tried: 1 ms, the tests' 2 s and 5 s
\* (DefaultMaxBackoff), and 30 s
MaxBackoffs == { Milliseconds(ms) : ms \in {1, 2000, 5000, 30000} }

BackoffInit ==
    /\ retry \in 0..MaxRetryIndex
    /\ maxBackoff \in MaxBackoffs
    /\ delay = NoDelay

\* no call of calculateBackoff
BackoffIdle ==
    /\ retry = 0
    /\ maxBackoff = Milliseconds(5000)
    /\ delay = NoDelay

(***************************************************************************)
(* addToBatch and flushBatch statement by statement, called by several     *)
(* goroutines on one APIClient.  Here batchMutex is "free" or names the    *)
(* caller whose Lock returned last.                                        *)
(***************************************************************************)
Callers == 1..MaxCallers

Holder(c) == "caller" \o ToString(c)

\* a.batchMutex.Lock() returns to caller c: the mutex was free
MutexLock(c) ==
    /\ batchMutex = "free"
    /\ batchMutex' = Holder(c)
    /\ lockCount' = [lockCount EXCEPT ![c] = @ + 1]
    /\ UNCHANGED <<unlockCount, unheldUnlocks>>

\* a.batchMutex.Unlock() called by caller c: sync.Mutex has no owner, the
\* mutex is released whoever locked it; unlocking a free mutex is a fatal
\* error of the runtime, counted here with the unlocks of another's hold
MutexUnlock(c) ==
    /\ batchMutex' = "free"
    /\ unlockCount' = [unlockCount EXCEPT ![c] = @ + 1]
    /\ unheldUnlocks' = IF batchMutex = Holder(c) THEN unheldUnlocks ELSE unheldUnlocks + 1
    /\ UNCHANGED lockCount

\* a goroutine calls addToBatch
CallAdd(c) ==
    /\ cpc[c] = "idle"
    /\ callsMade[c] < MaxCalls
    /\ callsMade' = [callsMade EXCEPT ![c] = @ + 1]
    /\ cerr' = [cerr EXCEPT ![c] = ""]
    /\ cpc' = [cpc EXCEPT ![c] = "addLock"]
    /\ UNCHANGED <<currentBatch, batchMutex, cbatch, lockCount, unlockCount, unheldUnlocks,
                   notCallerVars>>

\* a goroutine calls flushBatch
CallFlush(c) ==
    /\ cpc[c] = "idle"
    /\ callsMade[c] < MaxCalls
    /\ callsMade' = [callsMade EXCEPT ![c] = @ + 1]
    /\ cerr' = [cerr EXCEPT ![c] = ""]
    /\ cpc' = [cpc EXCEPT ![c] = "flushLock"]
    /\ UNCHANGED <<currentBatch, batchMutex, cbatch, lockCount, unlockCount, unheldUnlocks,
                   notCallerVars>>

\* addToBatch: Lock, defer Unlock, append; a full batch is copied and the
\* buffer cleared
AddLock(c) ==
    /\ cpc[c] = "addLock"
    /\ MutexLock(c)
    /\ LET b == Append(currentBatch, ShipRecord(c)) IN
        IF Len(b) >= ship.BatchSize
        THEN /\ cbatch' = [cbatch EXCEPT ![c] = b]
             /\ currentBatch' = <<>>
             /\ cpc' = [cpc EXCEPT ![c] = "addUnlock"]
        ELSE /\ currentBatch' = b
             /\ cpc' = [cpc EXCEPT ![c] = "addReturn"]
             /\ UNCHANGED cbatch
    /\ UNCHANGED <<cerr, callsMade, notCallerVars>>

\* addToBatch: the Unlock before sendBatch
AddUnlock(c) ==
    /\ cpc[c] = "addUnlock"
    /\ MutexUnlock(c)
    /\ cpc' = [cpc EXCEPT ![c] = "addSend"]
    /\ UNCHANGED <<currentBatch, cbatch, cerr, callsMade, notCallerVars>>

\* AddSend with the mutex not locked again when sendBatch failed
AddSendNoRelock(c) ==
    /\ cpc[c] = "addSend"
    /\ \E err \in {"", "failed to send batch"} :
        /\ cerr' = [cerr EXCEPT ![c] = err]
        /\ cpc' = [cpc EXCEPT ![c] = IF err = "" THEN "addRelock" ELSE "addReturn"]
    /\ UNCHANGED <<currentBatch, batchMutex, cbatch, lockCount, unlockCount, unheldUnlocks,
                   callsMade, notCallerVars>>

\* addToBatch: sendBatch(ctx, batch) returns nil or an error; on both
\* branches the mutex is locked again before the return
AddSend(c) ==
    /\ cpc[c] = "addSend"
    /\ \E err \in {"", "failed to send batch"} :
        cerr' = [cerr EXCEPT ![c] = err]
    /\ cpc' = [cpc EXCEPT ![c] = "addRelock"]
    /\ UNCHANGED <<currentBatch, batchMutex, cbatch, lockCount, unlockCount, unheldUnlocks,
                   callsMade, notCallerVars>>

\* addToBatch: the Lock after sendBatch
AddRelock(c) ==
    /\ cpc[c] = "addRelock"
    /\ MutexLock(c)
    /\ cpc' = [cpc EXCEPT ![c] = "addReturn"]
    /\ UNCHANGED <<currentBatch, cbatch, cerr, callsMade, notCallerVars>>

\* addToBatch returns: the deferred Unlock
AddReturn(c) ==
    /\ cpc[c] = "addReturn"
    /\ MutexUnlock(c)
    /\ cbatch' = [cbatch EXCEPT ![c] = <<>>]
    /\ cpc' = [cpc EXCEPT ![c] = "idle"]
    /\ UNCHANGED <<currentBatch, cerr, callsMade, notCallerVars>>

\* flushBatch: Lock, defer Unlock; nothing buffered: return nil; otherwise
\* the batch is copied and the buffer cleared
FlushLock(c) ==
    /\ cpc[c] = "flushLock"
    /\ MutexLock(c)
    /\ IF Len(currentBatch) = 0
       THEN /\ cpc' = [cpc EXCEPT ![c] = "flushReturn"]
            /\ UNCHANGED <<currentBatch, cbatch>>
       ELSE /\ cbatch' = [cbatch EXCEPT ![c] = currentBatch]
            /\ currentBatch' = <<>>
            /\ cpc' = [cpc EXCEPT ![c] = "flushSend"]
    /\ UNCHANGED <<cerr, callsMade, notCallerVars>>

\* flushBatch: return a.sendBatch(context.Background(), batch), called with
\* the mutex held
FlushSend(c) ==
    /\ cpc[c] = "flushSend"
    /\ \E err \in {"", "failed to send batch"} :
        cerr' = [cerr EXCEPT ![c] = err]
    /\ cpc' = [cpc EXCEPT ![c] = "flushReturn"]
    /\ UNCHANGED <<currentBatch, batchMutex, cbatch, lockCount, unlockCount, unheldUnlocks,
                   callsMade, notCallerVars>>

\* flushBatch returns: the deferred Unlock
FlushReturn(c) ==
    /\ cpc[c] = "flushReturn"
    /\ MutexUnlock(c)
    /\ cbatch' = [cbatch EXCEPT ![c] = <<>>]
    /\ cpc' = [cpc EXCEPT ![c] = "idle"]
    /\ UNCHANGED <<currentBatch, cerr, callsMade, notCallerVars>>

\* no call of addToBatch or flushBatch has begun
CallersInit ==
    /\ cpc = [c \in Callers |-> "idle"]
    /\ cbatch = [c \in Callers |-> <<>>]
    /\ cerr = [c \in Callers |-> ""]
    /\ lockCount = [c \in Callers |-> 0]
    /\ unlockCount = [c \in Callers |-> 0]
    /\ unheldUnlocks = 0
    /\ callsMade = [c \in Callers |-> 0]

(***************************************************************************)
(* Driver (run): two goroutines range over the error channels and count    *)
(* what they receive; run waits for the Shipper and prints the counters.   *)
(* Nothing orders the goroutines' writes before run's reads.               *)
(***************************************************************************)
NoSummary == [scanErrors |-> -1, apiErrors |-> -1, scanDelivered |-> -1, apiDelivered |-> -1]

\* scanErrorCount := 0, apiErrorCount := 0 and the two go statements
DriverInit ==
    /\ scanErrorCount = 0
    /\ apiErrorCount = 0
    /\ monPc = [m \in {"scan", "api"} |-> "range"]
    /\ summary = NoSummary

\* for err := range scanErrors: the receive of one iteration
MonitorScanRecv ==
    /\ monPc["scan"] = "range"
    /\ CanRecv("scanErr")
    /\ chan' = Recv(chan, "scanErr")
    /\ monPc' = [monPc EXCEPT !["scan"] = "count"]
    /\ UNCHANGED <<cancelled, closed, notDriverVars, scanErrorCount, apiErrorCount, summary>>

\* scanErrorCount++ (and the log line)
MonitorScanCount ==
    /\ monPc["scan"] = "count"
    /\ scanErrorCount' = scanErrorCount + 1
    /\ monPc' = [monPc EXCEPT !["scan"] = "range"]
    /\ UNCHANGED <<cancelled, chan, closed, notDriverVars, apiErrorCount, summary>>

\* the range loop ends: scanErrors is closed and empty
MonitorScanExit ==
    /\ monPc["scan"] = "range"
    /\ RecvClosed("scanErr")
    /\ monPc' = [monPc EXCEPT !["scan"] = "done"]
    /\ UNCHANGED <<cancelled, chan, closed, notDriverVars, scanErrorCount, apiErrorCount,
                   summary>>

\* for err := range apiErrors: the receive of one iteration
MonitorApiRecv ==
    /\ monPc["api"] = "range"
    /\ CanRecv("apiErr")
    /\ chan' = Recv(chan, "apiErr")
    /\ monPc' = [monPc EXCEPT !["api"] = "count"]
    /\ UNCHANGED <<cancelled, closed, notDriverVars, scanErrorCount, apiErrorCount, summary>>

\* apiErrorCount++ (and the log line)
MonitorApiCount ==
    /\ monPc["api"] = "count"
    /\ apiErrorCount' = apiErrorCount + 1
    /\ monPc' = [monPc EXCEPT !["api"] = "range"]
    /\ UNCHANGED <<cancelled, chan, closed, notDriverVars, scanErrorCount, summary>>

\* the range loop ends: apiErrors is closed and empty
MonitorApiExit ==
    /\ monPc["api"] = "range"
    /\ RecvClosed("apiErr")
    /\ monPc' = [monPc EXCEPT !["api"] = "done"]
    /\ UNCHANGED <<cancelled, chan, closed, notDriverVars, scanErrorCount, apiErrorCount,
                   summary>>

\* the errors delivered on channel c so far: nobody but monitor m receives
\* from it, so each is counted, received and not yet counted, or buffered
Delivered(m, c, count) == count + (IF monPc[m] = "count" THEN 1 ELSE 0) + Len(chan[c])

\* run after apiClient.Wait() returned: the summary lines read both counters.
\* The reads are ordered after none of the monitors' writes (run waits for
\* the Shipper's WaitGroup only), so each may return any value its counter
\* has had
DriverSummary ==
    /\ waited
    /\ summary = NoSummary
    /\ \E s \in 0..scanErrorCount, a \in 0..apiErrorCount :
          summary' = [scanErrors |-> s, apiErrors |-> a,
                      scanDelivered |-> Delivered("scan", "scanErr", scanErrorCount),
                      apiDelivered |-> Delivered("api", "apiErr", apiErrorCount)]
    /\ UNCHANGED <<cancelled, chan, closed, notDriverVars, scanErrorCount, apiErrorCount,
                   monPc>>

(***************************************************************************)
(* Specifications.                                                         *)
(***************************************************************************)
SeqsUpTo(S, n) == UNION { [1..k -> S] : k \in 0..n }

\* every channel empty and open, except that channel c holds s
ChanInit(c, s) ==
    /\ cancelled = FALSE
    /\ bufAtCancel = <<>>
    /\ flightAtCancel = 0
    /\ DriverInit
    /\ CallersInit
    /\ ClosesInit
    /\ StringsIdle
    /\ BackoffIdle
    /\ chan = [x \in ChanNames |-> IF x = c THEN s ELSE <<>>]
    /\ closed = [x \in ChanNames |-> FALSE]

HashNext ==
    \/ \E w \in Workers : HashRecv(w)
    \/ \E w \in Workers : HashSend(w)
    \/ \E w \in Workers : HashWorkerExit(w)
    \/ HashCloser
    \/ EnvFeedPath
    \/ EnvClosePaths
    \/ EnvDrainResults

\* the Hasher with its environment
\* the Shipper as NewAPIClient builds it for the driver
DefaultShipConfig == ShipConfig(MaxBatchSize, MaxRetriesBound, "bearer", "string", TRUE)

ShipIdle == ShipInit({DefaultShipConfig}) /\ envUnique = 0

\* a component used alone: nothing else is running
OthersIdle == ShipIdle /\ WalkIdle

InitHash ==
    /\ ChanInit("file", <<>>)
    /\ HashInit(HashConfigs)
    /\ DedupInit({"hash"})
    /\ OthersIdle

SpecHash == InitHash /\ [][HashNext]_vars

\* the Go scheduler runs every runnable goroutine, and the consumer keeps
\* ranging over the result channel
FairSpecHash ==
    /\ SpecHash
    /\ \A w \in Workers : WF_vars(HashRecv(w)) /\ WF_vars(HashSend(w)) /\ WF_vars(HashWorkerExit(w))
    /\ WF_vars(HashCloser)
    /\ WF_vars(EnvDrainResults)

\* the steps of the Deduplicate goroutine of run r
DedupRun(r) ==
    \/ DedupStart(r)
    \/ DedupCtxDone(r)
    \/ DedupRecv(r)
    \/ DedupInputClosed(r)
    \/ DedupRecheck(r)
    \/ DedupCount(r)
    \/ DedupFilter(r)
    \/ DedupPreSend(r)
    \/ DedupSend(r)
    \/ DedupSendCancelled(r)
    \/ DedupCloseOutput(r)
    \/ DedupCloseDone(r)

DedupNext ==
    \/ DedupRun(1)
    \/ EnvCloseInput(1)
    \/ GetStats
    \/ ResetSwapDone
    \/ ResetLock
    \/ ResetUnlock
    \/ Cancel

\* one engine, one Deduplicate run on a channel the caller has filled, a
\* caller of Reset, a caller of GetStats and the owner of the context
InitDedup ==
    /\ \E s \in SeqsUpTo(DedupInputs, MaxRecords) : ChanInit("in1", s)
    /\ HashInit({DefaultHashConfig})
    /\ DedupInit(DedupTypes)
    /\ OthersIdle

SpecDedup == InitDedup /\ [][DedupNext]_vars

\* the Go scheduler runs the Deduplicate goroutine whenever it can take a
\* step, and a Reset that was called runs to its end; nothing is assumed
\* about when Reset, GetStats or cancel() are called
FairSpecDedup ==
    /\ SpecDedup
    /\ WF_vars(DedupRun(1))
    /\ WF_vars(ResetLock) /\ WF_vars(ResetUnlock)

\* the caller has read the output of the first pass to its end
FirstPassOver == RecvClosed(DedupOut(1))

\* the caller reads the stats after the first pass
StatsAfterFirstPass ==
    /\ FirstPassOver
    /\ dpc[2] = "idle" /\ resets = 0 /\ resetPc = "idle"
    /\ GetStats

\* the caller calls Reset between the passes
ResetBetweenPasses ==
    /\ FirstPassOver
    /\ dpc[2] = "idle"
    /\ (ResetSwapDone \/ ResetLock \/ ResetUnlock)

\* the caller calls Deduplicate again
SecondPass ==
    /\ FirstPassOver
    /\ resetPc = "idle"
    /\ DedupStart(2)

\* a Deduplicate goroutine under a context that is never cancelled
DedupPass(r) ==
    \/ DedupRecv(r)
    \/ DedupInputClosed(r)
    \/ DedupRecheck(r)
    \/ DedupCount(r)
    \/ DedupFilter(r)
    \/ DedupPreSend(r)
    \/ DedupSend(r)
    \/ DedupCloseOutput(r)
    \/ DedupCloseDone(r)

AgainNext ==
    \/ DedupStart(1)
    \/ DedupPass(1)
    \/ EnvDrainOutput(1)
    \/ StatsAfterFirstPass
    \/ ResetBetweenPasses
    \/ SecondPass
    \/ DedupPass(2)
    \/ EnvDrainOutput(2)

\* one engine and a caller that fills and closes a channel, calls
\* Deduplicate, reads the output to its end, may call GetStats and Reset,
\* then does the same with the same records once more
InitAgain ==
    /\ cancelled = FALSE
    /\ bufAtCancel = <<>>
    /\ flightAtCancel = 0
    /\ DriverInit
    /\ CallersInit
    /\ ClosesInit
    /\ StringsIdle
    /\ BackoffIdle
    /\ \E s \in SeqsUpTo(DedupInputs, MaxRecords) :
          chan = [x \in ChanNames |-> IF x \in {"in1", "in2"} THEN s ELSE <<>>]
    /\ closed = [x \in ChanNames |-> x \in {"in1", "in2"}]
    /\ HashInit({DefaultHashConfig})
    /\ DedupInit(DedupTypes)
    /\ OthersIdle

SpecAgain == InitAgain /\ [][AgainNext]_vars

NilNext ==
    \/ \E r \in {1, 3} : DedupRun(r)
    \/ \E r \in {1, 3} : EnvDrainOutput(r)
    \/ EnvCloseInput(1)
    \/ Cancel

\* one engine with two Deduplicate calls: run 1 on a channel the caller has
\* filled, run 3 with a nil input channel, on which a receive never proceeds
InitNil ==
    /\ \E s \in SeqsUpTo(DedupInputs, MaxRecords) : ChanInit("in1", s)
    /\ HashInit({DefaultHashConfig})
    /\ DedupInit({"hash"})
    /\ OthersIdle

SpecNil == InitNil /\ [][NilNext]_vars

\* both goroutines and the readers of their outputs are scheduled; nothing
\* is assumed about cancel() or about the close of the input of run 1
FairSpecNil ==
    /\ SpecNil
    /\ \A r \in {1, 3} : WF_vars(DedupRun(r)) /\ WF_vars(EnvDrainOutput(r))

SharedNext ==
    \/ \E r \in {1, 2} : DedupRun(r)
    \/ \E r \in {1, 2} : EnvCloseInput(r)
    \/ GetStats
    \/ Cancel

\* one engine shared by two concurrent Deduplicate runs, never Reset; the
\* second run is given at most one record
InitDedupShared ==
    /\ cancelled = FALSE
    /\ bufAtCancel = <<>>
    /\ flightAtCancel = 0
    /\ DriverInit
    /\ CallersInit
    /\ ClosesInit
    /\ StringsIdle
    /\ BackoffIdle
    /\ \E s \in SeqsUpTo(DedupInputs, MaxRecords), t \in SeqsUpTo(DedupInputs, 1) :
          chan = [x \in ChanNames |-> CASE x = "in1" -> s [] x = "in2" -> t [] OTHER -> <<>>]
    /\ closed = [x \in ChanNames |-> FALSE]
    /\ HashInit({DefaultHashConfig})
    /\ DedupInit({"hash", "path"})
    /\ OthersIdle

SpecDedupShared == InitDedupShared /\ [][SharedNext]_vars

FinishNext ==
    \/ \E r \in {1, 2} : DedupRun(r)
    \/ \E r \in {1, 2} : EnvCloseInput(r)
    \/ ResetSwapDone
    \/ ResetLock
    \/ ResetUnlock
    \/ Cancel

\* one engine, two concurrent Deduplicate runs of at most one record each
\* that end by closure or by cancellation, and a caller of Reset
InitFinish ==
    /\ cancelled = FALSE
    /\ bufAtCancel = <<>>
    /\ flightAtCancel = 0
    /\ DriverInit
    /\ CallersInit
    /\ ClosesInit
    /\ StringsIdle
    /\ BackoffIdle
    /\ \E s \in SeqsUpTo(DedupInputs, 1), t \in SeqsUpTo(DedupInputs, 1) :
          chan = [x \in ChanNames |-> CASE x = "in1" -> s [] x = "in2" -> t [] OTHER -> <<>>]
    /\ closed = [x \in ChanNames |-> FALSE]
    /\ HashInit({DefaultHashConfig})
    /\ DedupInit({"hash"})
    /\ OthersIdle

SpecFinish == InitFinish /\ [][FinishNext]_vars

CallerStep(c) ==
    \/ CallAdd(c)
    \/ CallFlush(c)
    \/ AddLock(c)
    \/ AddUnlock(c)
    \/ AddSend(c)
    \/ AddRelock(c)
    \/ AddReturn(c)
    \/ FlushLock(c)
    \/ FlushSend(c)
    \/ FlushReturn(c)

CallersNext == \E c \in Callers : CallerStep(c)

\* one APIClient of every batch size with nothing buffered, on which
\* MaxCallers goroutines call addToBatch and flushBatch MaxCalls times each
InitCallers ==
    /\ ChanInit("unique", <<>>)
    /\ HashInit({DefaultHashConfig})
    /\ DedupInit({"hash"})
    /\ ShipInit({ShipConfig(b, MaxRetriesBound, "bearer", "string", TRUE) : b \in 1..MaxBatchSize})
    /\ envUnique = 0
    /\ WalkIdle

SpecCallers == InitCallers /\ [][CallersNext]_vars

ShipNext ==
    \/ ShipStart
    \/ ShipCtxDone
    \/ ShipRecv
    \/ ShipInputClosed
    \/ ShipAdd
    \/ ShipFlush
    \/ ShipBuild
    \/ ShipAttempt
    \/ ShipSent
    \/ ShipCloseErrors
    \/ ShipDone
    \/ ShipWait
    \/ EnvFeedUnique
    \/ EnvCloseUnique
    \/ EnvDrainApiErrors
    \/ Cancel

InitShip ==
    /\ ChanInit("unique", <<>>)
    /\ HashInit({DefaultHashConfig})
    /\ DedupInit({"hash"})
    /\ ShipInit(ShipConfigs)
    /\ envUnique = 0
    /\ WalkIdle

\* the Shipper with a producer, a reader of its errors, a caller of Wait and
\* the owner of the context
SpecShip == InitShip /\ [][ShipNext]_vars

\* what a root task of the pipeline can meet on its walk
PipeEvents == {FileEvent("/t/a.txt"), FileEvent("/t/b.txt"), ErrEvent}

\* the Shipper whose caller keeps reading the error channel
FairSpecShip == SpecShip /\ WF_vars(EnvDrainApiErrors)

\* a step of one of the pipeline's goroutines
PipeStep ==
    \/ \E r \in Roots : WalkStep(r)
    \/ \E r \in Roots : WalkSend(r)
    \/ \E r \in Roots : WalkSendCancelled(r)
    \/ \E r \in Roots : WalkDone(r)
    \/ ScanCloseFiles
    \/ ScanCloseErrors
    \/ \E w \in Workers : HashRecv(w)
    \/ \E w \in Workers : HashSend(w)
    \/ \E w \in Workers : HashWorkerExit(w)
    \/ HashCloser
    \/ DedupRun(0)
    \/ ShipStart
    \/ ShipCtxDone
    \/ ShipRecv
    \/ ShipInputClosed
    \/ ShipAdd
    \/ ShipFlush
    \/ ShipBuild
    \/ ShipAttempt
    \/ ShipSent
    \/ ShipCloseErrors
    \/ ShipDone
    \/ ShipWait
    \/ MonitorScanErrors
    \/ EnvDrainApiErrors

PipeNext == PipeStep \/ Cancel

\* the driver's run: Scan, Process, then Deduplicate and SendResults on the
\* channels in between, the two error monitors, and Wait
InitPipe ==
    /\ ChanInit("file", <<>>)
    /\ HashInit({DefaultHashConfig})
    /\ DedupInit({"hash"})
    /\ ShipInit({DefaultShipConfig})
    /\ envUnique = 0
    /\ WalkInit(SeqsUpTo(PipeEvents, MaxPaths))

SpecPipe == InitPipe /\ [][PipeNext]_vars

\* every goroutine of the pipeline that can take a step eventually takes one;
\* nothing is assumed about the owner of the context
FairSpecPipe ==
    /\ SpecPipe
    /\ \A r \in Roots :
          WF_vars(WalkStep(r)) /\ WF_vars(WalkSend(r)) /\ SF_vars(WalkSendCancelled(r))
          /\ WF_vars(WalkDone(r))
    /\ WF_vars(ScanCloseFiles) /\ WF_vars(ScanCloseErrors)
    /\ \A w \in Workers :
          WF_vars(HashRecv(w)) /\ WF_vars(HashSend(w)) /\ WF_vars(HashWorkerExit(w))
    /\ WF_vars(HashCloser)
    /\ WF_vars(DedupRun(0)) /\ SF_vars(DedupCtxDone(0)) /\ SF_vars(DedupSendCancelled(0))
    /\ WF_vars(ShipStart) /\ WF_vars(ShipRecv) /\ WF_vars(ShipInputClosed)
    /\ SF_vars(ShipCtxDone)
    /\ WF_vars(ShipAdd) /\ WF_vars(ShipFlush) /\ WF_vars(ShipBuild)
    /\ WF_vars(ShipAttempt) /\ WF_vars(ShipSent) /\ WF_vars(ShipCloseErrors)
    /\ WF_vars(ShipDone) /\ WF_vars(ShipWait)
    /\ WF_vars(MonitorScanErrors) /\ WF_vars(EnvDrainApiErrors)

\* the steps of the pipeline's goroutines in a run whose context is never
\* cancelled: the cases of the selects that wait for ctx.Done() are left out
PipeRunStep ==
    \/ \E r \in Roots : WalkStep(r)
    \/ \E r \in Roots : WalkSend(r)
    \/ \E r \in Roots : WalkDone(r)
    \/ ScanCloseFiles
    \/ ScanCloseErrors
    \/ \E w \in Workers : HashRecv(w)
    \/ \E w \in Workers : HashSend(w)
    \/ \E w \in Workers : HashWorkerExit(w)
    \/ HashCloser
    \/ DedupStart(0)
    \/ DedupRecv(0)
    \/ DedupInputClosed(0)
    \/ DedupRecheck(0)
    \/ DedupCount(0)
    \/ DedupFilter(0)
    \/ DedupPreSend(0)
    \/ DedupSend(0)
    \/ DedupCloseOutput(0)
    \/ DedupCloseDone(0)
    \/ ShipStart
    \/ ShipRecv
    \/ ShipInputClosed
    \/ ShipAdd
    \/ ShipFlush
    \/ ShipBuild
    \/ ShipAttempt
    \/ ShipSent
    \/ ShipCloseErrors
    \/ ShipDone
    \/ ShipWait
    \/ MonitorScanErrors
    \/ EnvDrainApiErrors

\* the client as the driver builds it with --auth-method bearer and with
\* --auth-method basic
DriverShipConfigs ==
    {DefaultShipConfig, ShipConfig(MaxBatchSize, MaxRetriesBound, "basic", "string", TRUE)}

\* the driver's run
InitPipeRun ==
    /\ ChanInit("file", <<>>)
    /\ HashInit({DefaultHashConfig})
    /\ DedupInit({"hash"})
    /\ ShipInit(DriverShipConfigs)
    /\ envUnique = 0
    /\ WalkInit(SeqsUpTo(PipeEvents, MaxPaths))

\* the pipeline when nobody cancels the context
SpecPipeRun == InitPipeRun /\ [][PipeRunStep]_vars

\* every goroutine that can take a step eventually takes one; a request to
\* the sink is answered (ShipAttempt) whatever the answer is
FairSpecPipeRun ==
    /\ SpecPipeRun
    /\ \A r \in Roots : WF_vars(WalkStep(r)) /\ WF_vars(WalkSend(r)) /\ WF_vars(WalkDone(r))
    /\ WF_vars(ScanCloseFiles) /\ WF_vars(ScanCloseErrors)
    /\ \A w \in Workers :
          WF_vars(HashRecv(w)) /\ WF_vars(HashSend(w)) /\ WF_vars(HashWorkerExit(w))
    /\ WF_vars(HashCloser)
    /\ WF_vars(DedupRun(0))
    /\ WF_vars(ShipStart) /\ WF_vars(ShipRecv) /\ WF_vars(ShipInputClosed)
    /\ WF_vars(ShipAdd) /\ WF_vars(ShipFlush) /\ WF_vars(ShipBuild)
    /\ WF_vars(ShipAttempt) /\ WF_vars(ShipSent) /\ WF_vars(ShipCloseErrors)
    /\ WF_vars(ShipDone) /\ WF_vars(ShipWait)
    /\ WF_vars(MonitorScanErrors) /\ WF_vars(EnvDrainApiErrors)

\* one call of calculateBackoff for every retry index up to MaxRetryIndex
InitBackoff ==
    /\ cancelled = FALSE
    /\ bufAtCancel = <<>>
    /\ flightAtCancel = 0
    /\ chan = [x \in ChanNames |-> <<>>]
    /\ closed = [x \in ChanNames |-> FALSE]
    /\ DriverInit
    /\ CallersInit
    /\ ClosesInit
    /\ StringsIdle
    /\ HashInit({DefaultHashConfig})
    /\ DedupInit({"hash"})
    /\ OthersIdle
    /\ BackoffInit

BackoffNext == CallBackoff

SpecBackoff == InitBackoff /\ [][BackoffNext]_vars

\* the bytes tried: two letters, a control byte and a byte above 127
ByteSamples == {65, 66, 0, 200}

StringsNext ==
    \/ ExScan
    \/ ExRead
    \/ ExReadEOF

\* one call of extractStrings on every content of at most MaxContent bytes,
\* with a minimum length of 1 or 2 and a reader that returns the content in
\* pieces of any size
InitStrings ==
    /\ cancelled = FALSE
    /\ bufAtCancel = <<>>
    /\ flightAtCancel = 0
    /\ chan = [x \in ChanNames |-> <<>>]
    /\ closed = [x \in ChanNames |-> FALSE]
    /\ DriverInit
    /\ CallersInit
    /\ ClosesInit
    /\ BackoffIdle
    /\ HashInit({DefaultHashConfig})
    /\ DedupInit({"hash"})
    /\ OthersIdle
    /\ StringsInit(SeqsUpTo(ByteSamples, MaxContent), 1..2)

SpecStrings == InitStrings /\ [][StringsNext]_vars

\* the driver's run with its two counting monitors and its summary; the
\* context is never cancelled
SummaryStep ==
    \/ \E r \in Roots : WalkStep(r)
    \/ \E r \in Roots : WalkSend(r)
    \/ \E r \in Roots : WalkDone(r)
    \/ ScanCloseFiles
    \/ ScanCloseErrors
    \/ \E w \in Workers : HashRecv(w)
    \/ \E w \in Workers : HashSend(w)
    \/ \E w \in Workers : HashWorkerExit(w)
    \/ HashCloser
    \/ DedupStart(0)
    \/ DedupRecv(0)
    \/ DedupInputClosed(0)
    \/ DedupRecheck(0)
    \/ DedupCount(0)
    \/ DedupFilter(0)
    \/ DedupPreSend(0)
    \/ DedupSend(0)
    \/ DedupCloseOutput(0)
    \/ DedupCloseDone(0)
    \/ ShipStart
    \/ ShipRecv
    \/ ShipInputClosed
    \/ ShipAdd
    \/ ShipFlush
    \/ ShipBuild
    \/ ShipAttempt
    \/ ShipSent
    \/ ShipCloseErrors
    \/ ShipDone
    \/ ShipWait
    \/ MonitorScanRecv
    \/ MonitorScanCount
    \/ MonitorScanExit
    \/ MonitorApiRecv
    \/ MonitorApiCount
    \/ MonitorApiExit
    \/ DriverSummary

SpecSummary == InitPipeRun /\ [][SummaryStep]_vars

\* the steps of the Walker and of the Shipper when the context is never
\* cancelled and nobody reads their error channels
UndrainedNext ==
    \/ \E r \in Roots : WalkStep(r)
    \/ \E r \in Roots : WalkSend(r)
    \/ \E r \in Roots : WalkDone(r)
    \/ ScanCloseFiles
    \/ ScanCloseErrors
    \/ ShipStart
    \/ ShipRecv
    \/ ShipInputClosed
    \/ ShipAdd
    \/ ShipFlush
    \/ ShipBuild
    \/ ShipAttempt
    \/ ShipSent
    \/ ShipCloseErrors
    \/ ShipDone
    \/ ShipWait
    \/ EnvFeedUnique
    \/ EnvCloseUnique

\* what a root task meets on a walk that ends in errors or in files
WalkEvents == {FileEvent("/t/a.txt"), ErrEvent}

\* the client of the driver, for every batch size
BearerShipConfigs ==
    {ShipConfig(b, MaxRetriesBound, "bearer", "string", TRUE) : b \in 1..MaxBatchSize}

\* a Scan and a SendResults whose callers never read the error channels
InitUndrained ==
    /\ ChanInit("file", <<>>)
    /\ HashInit({DefaultHashConfig})
    /\ DedupInit({"hash"})
    /\ ShipInit(BearerShipConfigs)
    /\ envUnique = 0
    /\ WalkInit(SeqsUpTo(WalkEvents, MaxPaths))

SpecUndrained == InitUndrained /\ [][UndrainedNext]_vars

ScanNext ==
    \/ \E r \in Roots : WalkStep(r)
    \/ \E r \in Roots : WalkSend(r)
    \/ \E r \in Roots : WalkSendCancelled(r)
    \/ \E r \in Roots : WalkDone(r)
    \/ ScanCloseFiles
    \/ ScanCloseErrors
    \/ EnvDrainFiles
    \/ MonitorScanErrors
    \/ Cancel

\* a Scan whose walks meet more files than the file channel holds
InitScan ==
    /\ ChanInit("file", <<>>)
    /\ HashInit({DefaultHashConfig})
    /\ DedupInit({"hash"})
    /\ ShipIdle
    /\ WalkInit(SeqsUpTo(WalkEvents, FileChanCap + 1))

SpecScan == InitScan /\ [][ScanNext]_vars

\* the root tasks and the closing goroutine are scheduled; nothing is
\* assumed about the readers of the two channels or about cancel()
FairSpecScan ==
    /\ SpecScan
    /\ \A r \in Roots :
          WF_vars(WalkStep(r)) /\ WF_vars(WalkSend(r)) /\ WF_vars(WalkSendCancelled(r))
          /\ WF_vars(WalkDone(r))
    /\ WF_vars(ScanCloseFiles) /\ WF_vars(ScanCloseErrors)

\* the roots a Scan can be given, one per task
TreeRoots ==
    { R, <<Dot>>, <<DotDot>>, R \o << <<"l", "f">> >>, R \o << <<"l", "d">> >>,
      << <<>>, <<"g">> >> }

\* the exclude lists: none, a malformed pattern, a malformed pattern before
\* the name b, every name that ends in b
ExcludeLists == { <<>>, << <<"[">> >>, << <<"[">>, <<"b">> >>, << <<"*", "b">> >> }

\* the configurations a caller can set on the scanner NewFileScanner returns
ScannerConfigs ==
    { [NewFileScanner(roots) EXCEPT !.MaxDepth = d, !.SkipSymlinks = l,
                                    !.SkipHiddenFiles = h, !.ExcludePaths = e] :
        roots \in [Roots -> TreeRoots], d \in -1..MaxDepthBound, l \in BOOLEAN,
        h \in BOOLEAN, e \in ExcludeLists }

\* Scan has started one task per root of a configured scanner
TreeInit ==
    /\ scanner \in ScannerConfigs
    /\ wtodo = [r \in Roots |-> scanPath(scanner, scanner.RootPaths[r], 0)]
    /\ wpc = [r \in Roots |-> "walk"]
    /\ scanCloser = "wait"
    /\ wdropped = 0
    /\ wsent = <<>>

TreeNext ==
    \/ \E r \in Roots : WalkStep(r)
    \/ \E r \in Roots : WalkSend(r)
    \/ \E r \in Roots : WalkDone(r)
    \/ ScanCloseFiles
    \/ ScanCloseErrors
    \/ EnvDrainFiles

\* a Scan of the tree under a context that is never cancelled, with a
\* reader of the file channel and no reader of the error channel
InitTree ==
    /\ ChanInit("file", <<>>)
    /\ HashInit({DefaultHashConfig})
    /\ DedupInit({"hash"})
    /\ ShipIdle
    /\ TreeInit

SpecTree == InitTree /\ [][TreeNext]_vars

(***************************************************************************)
(* Hasher properties.                                                      *)
(***************************************************************************)
CountPath(s, p) == Cardinality({i \in DOMAIN s : s[i] = p})
CountResult(s, p) == Cardinality({i \in DOMAIN s : s[i].path = p})
Holding(p) == Cardinality({w \in Workers : hpc[w] = "send" /\ hres[w].path = p})

\* whether stat, the size check, open or the read fails for the file
FailsBeforeHash(h, p) ==
    LET f == FileAt(p) IN
        \/ ~f.statOK
        \/ (h.SkipLargeFiles /\ f.size > h.MaxFileSize)
        \/ ~f.openOK
        \/ ~f.readOK

HashTotality ==
    /\ \A p \in Paths : CountResult(hSent, p) + Holding(p) = CountPath(hReceived, p)
    /\ \A i \in DOMAIN hSent : FailsBeforeHash(hp, hSent[i].path) => hSent[i].error # ""
    /\ closed["result"] =>
          \A p \in Paths : CountResult(hSent, p) = CountPath(hReceived, p)

\* C1: every path a worker receives yields exactly one FileResult for that
\* path on the result channel, a failed stat/open/hash yielding a result with
\* a non-empty error after which the worker goes on; and once the file
\* channel is closed and the consumer drains, the result channel is closed.
C1_HasherTotality ==
    /\ []HashTotality
    /\ (closed["file"] ~> closed["result"])

\* the run has ended after a failed file was followed by a good one
C1_Witness ==
    /\ closed["result"]
    /\ \E i, j \in DOMAIN hSent : i < j /\ hSent[i].error # "" /\ hSent[j].error = ""
    /\ Len(hReceived) >= 3

\* C16: every record the Hasher has emitted has a non-empty hash or a
\* non-empty error, and not both.
C16_HashXorError ==
    \A i \in DOMAIN hSent : (hSent[i].hash # "") # (hSent[i].error # "")

(***************************************************************************)
(* Deduper properties.                                                     *)
(***************************************************************************)
\* the DedupKey of a record under a dedup type, as the data model defines it
DedupKey(t, rec) ==
    CASE t = "path" -> rec.path
      [] t = "name" -> rec.name \o "#" \o ToString(rec.size)
      [] OTHER      -> rec.hashAlgorithm \o ":" \o rec.hash

\* the records run r has counted and sent on its output channel
SentEntries(r) == {i \in DOMAIN dlog[r] : dlog[r][i].fwd}
KeyAt(r, i) == DedupKey(dedupType, dlog[r][i].rec)
NoError(r, i) == dlog[r][i].rec.error = ""

\* run r is the only Deduplicate call on a fresh engine and has returned
\* because its input channel was closed
EndedByClosure(r) ==
    /\ dpc[r] = "finished"
    /\ \A q \in Runs \ {r} : dpc[q] = "idle"
    /\ ~cancelled
    /\ resets = 0

\* C2: on one engine that is never Reset, whatever the interleaving of the
\* runs sharing it, of GetStats and of cancellation, no two records sent on
\* output channels have the same DedupKey.
C2_AtMostOnePerKey ==
    \A r, q \in Runs : \A i \in SentEntries(r), j \in SentEntries(q) :
        (<<r, i>> # <<q, j>>) => KeyAt(r, i) # KeyAt(q, j)

\* both runs have counted a record of one key, and only one of them sent it
C2_Witness ==
    /\ dpc[1] = "finished" /\ dpc[2] = "finished"
    /\ \E i \in DOMAIN dlog[1], j \in DOMAIN dlog[2] :
        /\ NoError(1, i) /\ NoError(2, j)
        /\ KeyAt(1, i) = KeyAt(2, j)
        /\ dlog[1][i].fwd # dlog[2][j].fwd
    /\ snapshot # <<0, 0>>

\* C6 as stated: in a run ended by input closure, a non-error record is
\* forwarded iff no earlier record of the run, of any kind, had its key.
C6_ForwardIffNoEarlierRecord ==
    EndedByClosure(1) =>
        \A i \in DOMAIN dlog[1] : NoError(1, i) =>
            (dlog[1][i].fwd <=> \A j \in 1..(i - 1) : KeyAt(1, j) # KeyAt(1, i))

\* C6 (amended): in a run ended by input closure, a non-error record is
\* forwarded iff no earlier non-error record of the run had its key; hence
\* two non-error records are both forwarded iff their keys differ.
C6_ForwardIffNoEarlierGoodRecord ==
    EndedByClosure(1) =>
        \A i \in DOMAIN dlog[1] : NoError(1, i) =>
            (dlog[1][i].fwd <=>
                \A j \in 1..(i - 1) : NoError(1, j) => KeyAt(1, j) # KeyAt(1, i))

\* under NameDedup, two files of one name and different sizes were both
\* forwarded
C6_Witness ==
    /\ EndedByClosure(1)
    /\ dedupType = "name"
    /\ Len(dlog[1]) = 2
    /\ dlog[1][1].fwd /\ dlog[1][2].fwd
    /\ dlog[1][1].rec.name = dlog[1][2].rec.name

\* the entries of run r whose filtering under the lock is over
Filtered(r) ==
    {i \in DOMAIN dlog[r] : ~(dpc[r] = "locked" /\ i = Len(dlog[r]))}

\* C7: a record with a non-empty error is counted in total_files, is never
\* forwarded, is not counted in unique_files and adds no key to the seen
\* set, so that a later non-error record of the same key is forwarded.
C7_ErrorRecordsDropped ==
    (resets = 0 /\ \A q \in Runs \ {1} : dpc[q] = "idle") =>
        /\ \A i \in DOMAIN dlog[1] : ~NoError(1, i) => ~dlog[1][i].fwd
        /\ totalFiles = Len(dlog[1])
        /\ seen = {KeyAt(1, i) : i \in {k \in Filtered(1) : NoError(1, k)}}
        /\ uniqueFiles = Cardinality(seen)
        /\ EndedByClosure(1) =>
             \A i, j \in DOMAIN dlog[1] :
                (/\ i < j /\ ~NoError(1, i) /\ NoError(1, j)
                 /\ \A k \in 1..(j - 1) : NoError(1, k) => KeyAt(1, k) # KeyAt(1, j))
                => dlog[1][j].fwd

\* an error record was followed by a good record of the same key, which was
\* forwarded
C7_Witness ==
    /\ EndedByClosure(1)
    /\ Len(dlog[1]) = 2
    /\ ~NoError(1, 1) /\ NoError(1, 2)
    /\ KeyAt(1, 1) = KeyAt(1, 2)
    /\ dlog[1][2].fwd
    /\ totalFiles = 2 /\ uniqueFiles = 1

\* C8: whatever the interleaving of Deduplicate, Reset and GetStats, the
\* pair (total, unique) a GetStats call returns has 0 <= unique <= total.
C8_SnapshotCoherent ==
    /\ 0 <= snapshot[2]
    /\ snapshot[2] <= snapshot[1]

\* Reset is half way through clearing the counters, after GetStats returned
\* counts of a run
C8_Witness ==
    /\ lock = "reset"
    /\ uniqueFiles > totalFiles
    /\ snapshot[2] > 0

\* C9: after a run ended by input closure, total_files is the number of
\* records received, and unique_files is the number of distinct keys among
\* the non-error records, which is the number of records forwarded.
C9_StatsAfterRun ==
    EndedByClosure(1) =>
        /\ chan["in1"] = <<>>
        /\ totalFiles = Len(dlog[1])
        /\ uniqueFiles = Cardinality({KeyAt(1, i) : i \in {k \in DOMAIN dlog[1] : NoError(1, k)}})
        /\ uniqueFiles = Cardinality(SentEntries(1))
        /\ Len(chan["out1"]) = Cardinality(SentEntries(1))

\* a run that received an error record and a duplicate has ended
C9_Witness ==
    /\ EndedByClosure(1)
    /\ Len(dlog[1]) = 2
    /\ totalFiles = 2
    /\ uniqueFiles = 1
    /\ \E i \in DOMAIN dlog[1] : ~NoError(1, i)

\* both passes of a caller that fed the same records twice are over
BothPassesOver == dpc[1] = "finished" /\ dpc[2] = "finished"

\* C19 as stated: without Reset the first pass forwards exactly the first
\* occurrence of each key and the second pass forwards nothing; total_files
\* counts both passes and unique_files is what it was after the first.
C19_SecondPassForwardsNothing ==
    (BothPassesOver /\ resets = 0) =>
        /\ \A i \in DOMAIN dlog[1] :
              dlog[1][i].fwd <=> \A j \in 1..(i - 1) : KeyAt(1, j) # KeyAt(1, i)
        /\ SentEntries(2) = {}
        /\ totalFiles = 2 * Len(dlog[1])
        /\ snapshot[1] > 0 => (totalFiles = 2 * snapshot[1] /\ uniqueFiles = snapshot[2])

\* C19 (amended): without Reset the first pass forwards exactly the first
\* occurrence without error of each key and the second pass forwards
\* nothing; total_files counts both passes and unique_files is what it was
\* after the first.
C19_SecondPassForwardsNothingGood ==
    (BothPassesOver /\ resets = 0) =>
        /\ \A i \in DOMAIN dlog[1] :
              dlog[1][i].fwd <=>
                  /\ NoError(1, i)
                  /\ \A j \in 1..(i - 1) : NoError(1, j) => KeyAt(1, j) # KeyAt(1, i)
        /\ SentEntries(2) = {}
        /\ [j \in DOMAIN dlog[2] |-> dlog[2][j].rec] = [j \in DOMAIN dlog[1] |-> dlog[1][j].rec]
        /\ totalFiles = 2 * Len(dlog[1])
        /\ uniqueFiles = Cardinality(SentEntries(1))
        /\ snapshot[1] > 0 => (totalFiles = 2 * snapshot[1] /\ uniqueFiles = snapshot[2])

\* two records were fed twice, the first pass forwarded one of them, and the
\* stats were read between the passes
C19_Witness ==
    /\ BothPassesOver /\ resets = 0
    /\ snapshot = <<2, 1>>
    /\ totalFiles = 4
    /\ Len(dlog[2]) = 2

\* C20: a Reset after a completed run leaves the stats at (0, 0) and the
\* set of seen keys empty, and a second run on the same records then
\* forwards the same records and ends with the stats of the first run.
C20_ResetThenSameRun ==
    /\ (FirstPassOver /\ resets = 1 /\ resetPc = "idle" /\ dpc[2] = "idle") =>
          (totalFiles = 0 /\ uniqueFiles = 0 /\ seen = {})
    /\ (BothPassesOver /\ resets = 1) =>
          /\ dlog[2] = dlog[1]
          /\ totalFiles = Len(dlog[1])
          /\ uniqueFiles = Cardinality(SentEntries(1))
          /\ snapshot[1] > 0 => <<totalFiles, uniqueFiles>> = snapshot

\* a run with a duplicate, the stats read, a Reset, and the same run again
C20_Witness ==
    /\ BothPassesOver /\ resets = 1
    /\ snapshot = <<2, 1>>
    /\ Cardinality(SentEntries(2)) = 1

\* C21: Reset may be called at any point of a Deduplicate run.  The cleared
\* counters and the cleared set of seen keys become visible together: the
\* half-cleared state exists only while Reset holds the write lock, where
\* GetStats cannot read.  Reset always returns, and the run ends and closes
\* its output once its input is closed.
C21_ResetDuringRun ==
    /\ [](lock # "reset" =>
            (resetPc # "clearing" /\ uniqueFiles = Cardinality(seen)
             /\ uniqueFiles <= totalFiles))
    /\ [](lock = "reset" => ~ENABLED GetStats)
    /\ (resetPc # "idle") ~> (resetPc = "idle")
    /\ closed["in1"] ~> (dpc[1] = "finished" /\ closed["out1"])

\* Reset ran between two records of a run that then ended by input closure
C21_Witness ==
    /\ resets = 1 /\ resetPc = "idle"
    /\ ~cancelled
    /\ dpc[1] = "finished" /\ closed["out1"]
    /\ Len(dlog[1]) = 2
    /\ totalFiles = 1

\* the key of entry i of run r under hash deduplication
HashKeyAt(r, i) == getDeduplicationKey("hash", dlog[r][i].rec)

\* C22: an engine whose type is none of hash, path and name computes for
\* every record the key an engine of type hash computes, and a run on it
\* forwards the records and ends with the stats of hash deduplication.
C22_UnknownTypeIsHash ==
    dedupType \notin {"hash", "path", "name"} =>
        /\ \A rec \in DedupInputs :
              getDeduplicationKey(dedupType, rec) = getDeduplicationKey("hash", rec)
        /\ seen \subseteq {getDeduplicationKey("hash", rec) : rec \in DedupInputs}
        /\ EndedByClosure(1) =>
              /\ \A i \in DOMAIN dlog[1] :
                    dlog[1][i].fwd <=>
                        /\ NoError(1, i)
                        /\ \A j \in 1..(i - 1) :
                              NoError(1, j) => HashKeyAt(1, j) # HashKeyAt(1, i)
              /\ totalFiles = Len(dlog[1])
              /\ uniqueFiles =
                    Cardinality({HashKeyAt(1, i) : i \in {k \in DOMAIN dlog[1] : NoError(1, k)}})

\* an engine of an unknown type has filtered the second of two records of
\* one content at different paths
C22_Witness ==
    /\ dedupType = "content"
    /\ EndedByClosure(1)
    /\ Len(dlog[1]) = 2
    /\ dlog[1][1].rec.path # dlog[1][2].rec.path
    /\ dlog[1][1].fwd /\ ~dlog[1][2].fwd
    /\ NoError(1, 2)
    /\ uniqueFiles = 1

\* C23: once the token is cancelled and the run is at its outer select (or
\* not yet started), whatever it dequeues from then on is never counted or
\* sent, and its log of forwarded records never grows again.  A run called
\* with a cancelled token forwards nothing and ends with its output closed,
\* whether or not the input channel is ever closed.
C23_NothingForwardedAfterCancel ==
    /\ [](\A n \in 0..MaxRecords :
            (cancelled /\ dpc[1] \in {"idle", "select"} /\ Len(dlog[1]) = n) =>
                [](dpc[1] \notin {"count", "locked", "presend", "send"}
                   /\ Len(dlog[1]) = n))
    /\ []((cancelled /\ dpc[1] = "idle") => [](chan["out1"] = <<>>))
    /\ (cancelled /\ dpc[1] = "idle") ~> (dpc[1] = "finished" /\ closed["out1"])

\* a run called with a cancelled token has ended; its input still holds
\* two records and is open
C23_Witness ==
    /\ cancelled
    /\ dpc[1] = "finished" /\ closed["out1"]
    /\ ~closed["in1"]
    /\ Len(chan["in1"]) >= 1
    /\ dlog[1] = <<>>
    /\ chan["out1"] = <<>>

\* C24: a Deduplicate called with a nil input channel delivers no record
\* and eventually closes its output channel, so that a range over it ends,
\* whether or not the token is ever cancelled.
C24_NilInputTerminates ==
    /\ [](chan["out3"] = <<>>)
    /\ <>(closed["out3"])

\* C34: once the caller has observed the output channel of a Deduplicate
\* run closed, the engine's done channel is closed; after a Reset the
\* caller makes then, the done channel is open again
C34_DoneChannelSync ==
    /\ (FirstPassOver /\ resets = 0 /\ dpc[2] = "idle") => doneClosed
    /\ (FirstPassOver /\ resets = 1 /\ resetPc = "idle" /\ dpc[2] = "idle") => ~doneClosed

\* the i-th record run r counted is the first non-error record of its key
FirstOfKey(r, i) ==
    NoError(r, i) /\ \A j \in 1..(i - 1) : NoError(r, j) => KeyAt(r, j) # KeyAt(r, i)

\* among the first n records run r counted, those that are the first
\* non-error record of their key, in arrival order
RECURSIVE ExpectedOutput(_, _)
ExpectedOutput(r, n) ==
    IF n = 0 THEN <<>>
    ELSE IF FirstOfKey(r, n) THEN Append(ExpectedOutput(r, n - 1), dlog[r][n].rec)
    ELSE ExpectedOutput(r, n - 1)

IsPrefix(s, t) == Len(s) <= Len(t) /\ s = SubSeq(t, 1, Len(s))

\* C36: the sequence of records on the output channel of a Deduplicate run
\* (the only run of a fresh engine, the channel's reader not yet started)
\* is the subsequence of the input made of the first occurrence of each key
\* among the non-error records, in arrival order: a prefix of it at any
\* time, and the whole of it when the run has ended by input closure
C36_OutputInArrivalOrder ==
    (resets = 0 /\ \A q \in Runs \ {1} : dpc[q] = "idle") =>
        /\ IsPrefix(chan["out1"], ExpectedOutput(1, Len(dlog[1])))
        /\ EndedByClosure(1) =>
              /\ chan["in1"] = <<>>
              /\ chan["out1"] = ExpectedOutput(1, Len(dlog[1]))

\* a run given two records of different keys has ended and both are on the
\* output channel, the first received first
C36_Witness ==
    /\ EndedByClosure(1)
    /\ Len(dlog[1]) = 2
    /\ KeyAt(1, 1) # KeyAt(1, 2)
    /\ chan["out1"] = <<dlog[1][1].rec, dlog[1][2].rec>>

\* C37: when a Deduplicate run has ended, by input closure or by
\* cancellation, the seen set is the set of keys of the records that were
\* forwarded and unique_files is the number of records forwarded
C37_SeenIsForwarded ==
    (dpc[1] = "finished" /\ resets = 0 /\ \A q \in Runs \ {1} : dpc[q] = "idle") =>
        /\ seen = {KeyAt(1, i) : i \in SentEntries(1)}
        /\ uniqueFiles = Cardinality(SentEntries(1))

\* C39: whatever the interleaving of two Deduplicate runs ending on one
\* engine and of Reset, close is called at most once on each output channel
\* and exactly once when its run has finished, and close is called at most
\* once on every done channel the engine has had.
C39_ClosedOnce ==
    /\ \A r \in {1, 2} :
          /\ closeCount[DedupOut(r)] <= 1
          /\ dpc[r] = "finished" => closeCount[DedupOut(r)] = 1
          /\ closed[DedupOut(r)] <=> closeCount[DedupOut(r)] = 1
    /\ \A g \in 0..MaxResets : doneCloseCount[g] <= 1

\* both runs have finished and Reset replaced the done channel between
\* their deferred functions: each of the two done channels was closed
C39_Witness ==
    /\ dpc[1] = "finished"
    /\ dpc[2] = "finished"
    /\ closeCount["out1"] = 1
    /\ closeCount["out2"] = 1
    /\ doneCloseCount[0] = 1
    /\ doneCloseCount[1] = 1

(***************************************************************************)
(* Shipper properties.                                                     *)
(***************************************************************************)
\* the batches handed to sendBatch that contain the record
BatchesWith(rec) ==
    {i \in 1..Len(posts) : \E j \in 1..Len(posts[i].batch) : posts[i].batch[j] = rec}

\* Wait has returned after a run that ended by the closure of the input
CleanShutdown == waited /\ ~cancelled

\* on a clean shutdown every record received was handed to sendBatch in
\* exactly one batch (whether or not a request was issued for it)
HandedOffExactlyOnce ==
    CleanShutdown =>
        \A k \in 1..Len(sReceived) : Cardinality(BatchesWith(sReceived[k])) = 1

\* C3: when the input channel closes normally (no cancellation), every record
\* the Shipper received is, by the time Wait returns, contained in exactly
\* one batch, and at least one POST was issued for that batch.
C3_NoDataLossOnCleanClose ==
    CleanShutdown =>
        \A k \in 1..Len(sReceived) :
            /\ Cardinality(BatchesWith(sReceived[k])) = 1
            /\ \A i \in BatchesWith(sReceived[k]) : posts[i].n >= 1

\* a call of sendWithRetries has returned
SendReturned == spc = "sent" /\ Len(attempts) >= 1

\* C5: when the sending of a batch returns: if every request got a 5xx
\* response, max_retries + 1 requests were issued and an error is returned;
\* if the first response was a 4xx other than 429, one request was issued
\* and an error is returned; and never are more than max_retries + 1
\* requests issued for one batch.
C5_RetryEnvelope ==
    /\ Len(attempts) <= ship.MaxRetries + 1
    /\ \A i \in 1..Len(posts) : posts[i].n <= ship.MaxRetries + 1
    /\ SendReturned =>
        /\ (\A i \in 1..Len(attempts) : attempts[i] = "5xx") =>
              Len(attempts) = ship.MaxRetries + 1 /\ lastErr # ""
        /\ attempts[1] = "4xx" => Len(attempts) = 1 /\ lastErr # ""

C5_Witness ==
    /\ SendReturned
    /\ ship.MaxRetries = MaxRetriesBound
    /\ Len(attempts) = MaxRetriesBound + 1
    /\ \A i \in 1..Len(attempts) : attempts[i] = "5xx"
    /\ \E i \in 1..(Len(posts) - 1) : posts[i].n = 1

\* C10: every batch handed off has between 1 and B records; after a normal
\* close with N records received, ceil(N/B) batches were handed off, the
\* first floor(N/B) of B records each and, when B does not divide N, a last
\* one of N mod B records.
C10_BatchCount ==
    /\ \A i \in 1..Len(posts) :
          Len(posts[i].batch) >= 1 /\ Len(posts[i].batch) <= ship.BatchSize
    /\ CleanShutdown =>
        LET N == Len(sReceived)
            B == ship.BatchSize
        IN /\ Len(posts) = (N + B - 1) \div B
           /\ \A i \in 1..(N \div B) : Len(posts[i].batch) = B
           /\ N % B # 0 => Len(posts[Len(posts)].batch) = N % B

C10_Witness ==
    /\ CleanShutdown
    /\ ship.BatchSize = MaxBatchSize
    /\ Len(sReceived) = MaxShipRecords
    /\ MaxShipRecords % MaxBatchSize # 0
    /\ Len(posts) > 1

\* outcomes of a request after which sendWithRetries goes on
Retryable == {"neterr", "5xx", "429"}

\* the send of the i-th batch is over and SendResults has dealt with its error
Settled(i) == i < Len(posts) \/ spc \notin {"build", "attempt", "sent"}

\* C11: a send whose requests fail with retryable outcomes goes on while the
\* number of requests is at most max_retries; when request k gets a 2xx the
\* send stops at once, having issued k requests, and returns nil; and no
\* error is offered to the error channel for a batch whose send ended in 2xx.
C11_RetryThenSuccess ==
    /\ \A j \in 1..Len(attempts) :
          attempts[j] = "2xx" => j = Len(attempts) /\ spc = "sent" /\ lastErr = ""
    /\ \A j \in 1..(Len(attempts) - 1) : attempts[j] \in Retryable
    /\ (SendReturned /\ attempts[Len(attempts)] \in Retryable) =>
          Len(attempts) = ship.MaxRetries + 1
    /\ \A i \in 1..Len(posts) : posts[i].last = "2xx" => posts[i].errs = 0

C11_Witness ==
    /\ ship.MaxRetries = MaxRetriesBound
    /\ \E i \in 1..Len(posts) :
          /\ Settled(i)
          /\ posts[i].last = "2xx"
          /\ posts[i].n = MaxRetriesBound + 1
          /\ posts[i].errs = 0

\* what the send of a batch ended with when it failed: a request that could
\* not be built, or the outcome of its last request
Failures == {"build", "neterr", "5xx", "429", "4xx"}

Records(b) == {b[j] : j \in 1..Len(b)}

\* C12: once the failed send of a batch is over, exactly one error has been
\* offered to the error channel for it, and its records are neither in the
\* buffer nor in any later batch; no batch has more than one error offered.
C12_TerminalFailure ==
    \A i \in 1..Len(posts) :
        /\ posts[i].errs <= 1
        /\ (Settled(i) /\ posts[i].last \in Failures) =>
              /\ posts[i].errs = 1
              /\ Records(posts[i].batch) \cap Records(currentBatch) = {}
              /\ \A k \in (i + 1)..Len(posts) :
                    Records(posts[i].batch) \cap Records(posts[k].batch) = {}

C12_Witness ==
    \E i \in 1..Len(posts) : \E k \in 1..Len(posts) :
        /\ i < k
        /\ posts[i].last = "5xx"
        /\ posts[i].n = ship.MaxRetries + 1
        /\ posts[i].errs = 1
        /\ posts[k].last = "4xx"
        /\ Settled(k)
        /\ posts[k].errs = 1

\* C14: when the context has been cancelled and the ingest goroutine of a
\* client that can build its requests has returned, every record that was in
\* the buffer at the moment of cancellation is in a batch that was sent with
\* context.Background() and for which a request was issued.
C14_ResidualFlushedWithFreshContext ==
    (cancelled /\ spc = "done" /\ buildRequest(ship) = "") =>
        \A rec \in Records(bufAtCancel) :
            \E i \in BatchesWith(rec) : posts[i].ctx = "background" /\ posts[i].n >= 1

\* every send is over: nothing is being sent or held for sending, every batch
\* handed to sendBatch is settled and the mutex is free
AllSendsOver ==
    /\ sbatch = <<>>
    /\ currentBatch = <<>>
    /\ batchMutex = "free"
    /\ \A i \in 1..Len(posts) : Settled(i)

\* C15: when Wait has returned, the ingest goroutine has returned, every
\* send including the final flush is over and the error channel is closed;
\* and a reader of the error channel then comes to its end.
C15_WaitAfterSendsAndClose ==
    /\ [](waited => (spc = "done" /\ AllSendsOver /\ closed["apiErr"]))
    /\ (waited ~> RecvClosed("apiErr"))

C15_Witness ==
    /\ waited
    /\ Len(posts) >= 2
    /\ posts[Len(posts)].ctx = "background"
    /\ posts[Len(posts)].n = MaxRetriesBound + 1
    /\ Len(chan["apiErr"]) > 0

\* C18: while the send of a full batch is in flight (its request is being
\* built, attempted or backed off), the Shipper can receive a record that is
\* waiting on its input channel.
C18_IngestDuringSend ==
    (spc \in {"build", "attempt"} /\ sfrom = "add" /\ CanRecv("unique")) =>
        ENABLED ShipRecv

\* C25: when the context expired while the request of a batch was in flight,
\* an error for that batch was offered to the error channel before the
\* channel was closed.
C25_ErrorWhenContextExpiresInFlight ==
    (flightAtCancel > 0 /\ closed["apiErr"]) => posts[flightAtCancel].errs >= 1

\* C33: the Shipper's batch mutex is never held while a request of a batch
\* (or the backoff before a retry) is in progress, whether the batch was
\* handed over by addToBatch or by flushBatch
C33_MutexFreeDuringIO == spc = "attempt" => batchMutex = "free"

\* 0.8 * base * 2^n and 1.4 * base * 2^n nanoseconds, base being 100 ms
LowerBound(n) == Dur(80000000, n)
UpperBound(n) == Dur(140000000, n)

\* C35: for every retry index n >= 0 the delay calculateBackoff returns is
\* at least 0.8 * base * 2^n and at most min(1.4 * base * 2^n, max_backoff),
\* also when 0.8 * base * 2^n exceeds max_backoff
C35_BackoffBounds ==
    delay # NoDelay =>
        /\ ~Greater(LowerBound(retry), delay)
        /\ ~Greater(delay, UpperBound(retry))
        /\ ~Greater(delay, maxBackoff)

\* C40: for every retry index n >= 0 and every max_backoff > 0 the delay d
\* calculateBackoff returns satisfies 0 < d <= max_backoff, also when
\* 2^n * 100 ms overflows int64 or the shift count reaches 64
C40_BackoffPositiveAndCapped ==
    delay # NoDelay => (Sign(delay) = 1 /\ ~Greater(delay, maxBackoff))

\* C38: on every path through addToBatch and flushBatch a caller has
\* unlocked the batch mutex as many times as it has locked it, less the one
\* hold it has while it is between a Lock and the matching Unlock; so the
\* mutex is not held by a caller whose call returned and is free when no
\* call is under way; no Unlock is called by a caller that does not hold
\* the mutex; and while a call is under way some caller can take a step.
C38_MutexBalanced ==
    /\ \A c \in Callers :
          /\ lockCount[c] - unlockCount[c] = IF batchMutex = Holder(c) THEN 1 ELSE 0
          /\ cpc[c] = "idle" => lockCount[c] = unlockCount[c] /\ batchMutex # Holder(c)
    /\ (\A c \in Callers : cpc[c] = "idle") => batchMutex = "free"
    /\ unheldUnlocks = 0
    /\ (\E c \in Callers : cpc[c] # "idle") => ENABLED CallersNext

\* caller 1 has returned from an addToBatch whose full batch could not be
\* sent, while caller 2 holds the mutex in its own addToBatch
C38_Witness ==
    /\ cpc[1] = "idle"
    /\ callsMade[1] = 1
    /\ lockCount[1] = 2
    /\ unlockCount[1] = 2
    /\ cerr[1] = "failed to send batch"
    /\ cpc[2] = "addReturn"
    /\ batchMutex = Holder(2)

(***************************************************************************)
(* Pipeline properties.                                                    *)
(***************************************************************************)
PipeChannels == {"file", "scanErr", "result", "unique", "apiErr"}

\* every goroutine of the pipeline has returned and every channel between
\* the stages and every error channel is closed
PipelineFinished ==
    /\ \A r \in Roots : wpc[r] = "done"
    /\ scanCloser = "done"
    /\ \A w \in Workers : hpc[w] = "done"
    /\ dpc[0] = "finished"
    /\ spc = "done"
    /\ \A c \in PipeChannels : closed[c]

\* a hasher worker holds a result it cannot send: the result channel is full
\* and the Deduper, its only reader, has returned
WorkerStuck ==
    \E w \in Workers :
        /\ hpc[w] = "send"
        /\ ~CanSend("result")
        /\ dpc[0] = "finished"

\* C4: once the context is cancelled, every stage eventually finishes and
\* every channel of the pipeline is eventually closed.
C4_CancellationLiveness == cancelled ~> PipelineFinished

\* C4, the part a finite run refutes: a cancelled pipeline never deadlocks.
\* Whenever the context is cancelled, either every stage has finished and
\* every channel is closed, or some goroutine of the pipeline can still take
\* a step.
C4_CancelledNeverDeadlocks ==
    cancelled => (PipelineFinished \/ ENABLED PipeStep)

\* C13: when the context is never cancelled, the pipeline reaches a state
\* in which every stage has finished, every channel between the stages and
\* every error channel is closed, and APIClient.Wait has returned.
C13_OrderlyShutdown == <>(PipelineFinished /\ waited)

C13_Witness ==
    /\ PipelineFinished
    /\ waited
    /\ ~cancelled
    /\ Len(hSent) = MaxPaths
    /\ Len(posts) > 0

\* the errors the Shipper has offered to its error channel
Offered ==
    LET RECURSIVE sum(_)
        sum(i) == IF i = 0 THEN 0 ELSE posts[i].errs + sum(i - 1)
    IN sum(Len(posts))

\* C17: no stage blocks on an error-channel send.  The Shipper at its offer
\* and the Walker at an error of its walk can always take their step; the
\* buffered errors never exceed the capacity of the channel; and when nobody
\* reads the channels, what did not fit was dropped.
C17_ErrorSendsNeverBlock ==
    /\ Len(chan["apiErr"]) <= ErrorChanCap
    /\ Len(chan["scanErr"]) <= ScanErrChanCap
    /\ spc = "sent" => ENABLED ShipSent
    /\ \A r \in Roots :
          (wpc[r] = "walk" /\ wtodo[r] # <<>> /\ Head(wtodo[r]).kind = "err") =>
              ENABLED WalkStep(r)
    /\ Len(chan["apiErr"]) = (IF Offered < ErrorChanCap THEN Offered ELSE ErrorChanCap)
    /\ wdropped > 0 => Len(chan["scanErr"]) = ScanErrChanCap

\* the Walker is sending a file after it dropped an error, and the Shipper
\* is sending a batch after an error of its own did not fit
C17_Witness ==
    /\ wdropped > 0
    /\ \E r \in Roots : wpc[r] = "send"
    /\ Offered > ErrorChanCap
    /\ spc = "attempt"

\* C26: after the token is cancelled every root task returns and Scan
\* closes both channels, whether or not anybody reads the file channel, a
\* task blocked on a full file channel included; and once the token is
\* cancelled and no task is inside its send, no further path is emitted, so
\* that a Scan started with a cancelled token emits none.
C26_CancelReleasesWalker ==
    /\ cancelled ~> (scanCloser = "done" /\ closed["file"] /\ closed["scanErr"]
                      /\ \A r \in Roots : wpc[r] = "done")
    /\ [](\A n \in 0..FileChanCap :
            (cancelled /\ (\A r \in Roots : wpc[r] # "send") /\ Len(chan["file"]) = n) =>
                [](Len(chan["file"]) <= n))

\* a task is blocked in its send on a full file channel that nobody reads,
\* and the token is cancelled
C26_Witness ==
    /\ cancelled
    /\ Len(chan["file"]) = FileChanCap
    /\ \E r \in Roots : wpc[r] = "send" /\ ~ENABLED WalkSend(r)

(***************************************************************************)
(* Walker properties on the tree.                                          *)
(***************************************************************************)
\* the paths the Scan has sent on the file channel
Emitted == {wsent[i] : i \in DOMAIN wsent}

\* every root task has returned and the channels are closed
ScanOver == scanCloser = "done" /\ \A r \in Roots : wpc[r] = "done"

\* path lies below the directory root
Below(root, path) == Len(path) > Len(root) /\ SubSeq(path, 1, Len(root)) = root

TreeNames == {<<>>} \cup {Base(n.path) : n \in Tree}

\* C28: a name is hidden iff its first byte is '.' and it is neither "."
\* nor ".."; hence a Scan with skip_hidden of the root "." or ".." emits the
\* file a of that directory.
C28_HiddenNames ==
    ScanOver =>
        /\ \A name \in TreeNames :
              isHiddenFile(name) <=>
                  (Len(name) > 0 /\ name[1] = "." /\ name \notin {Dot, DotDot})
        /\ (scanner.SkipHiddenFiles /\ scanner.ExcludePaths = <<>>) =>
              /\ scanner.RootPaths = <<<<Dot>>>> => << <<"a">> >> \in Emitted
              /\ scanner.RootPaths = <<<<DotDot>>>> => <<DotDot, <<"a">> >> \in Emitted

\* the links of the tree
LinkPaths == {n.path : n \in {m \in Tree : m.kind = "link"}}

\* C29: with skip_symlinks disabled a link that is a root or an entry of a
\* scanned directory is resolved and handled as its target, so a Scan of /r,
\* of the link /r/lf to the file /x/t or of the link /r/ld to the directory
\* /x emits /x/t; with skip_symlinks enabled no link is followed or emitted.
C29_SymlinkPolicy ==
    (/\ ScanOver /\ scanner.ExcludePaths = <<>> /\ scanner.MaxDepth = -1
     /\ scanner.RootPaths[1] \in {R} \cup LinkPaths) =>
        /\ Emitted \cap LinkPaths = {}
        /\ X \o << <<"t">> >> \in Emitted <=> ~scanner.SkipSymlinks

\* the errors the Scan has offered to its error channel, which nobody reads
ScanErrorsOffered == Len(chan["scanErr"]) + wdropped

\* C30: a malformed exclude pattern does not abort the Scan of /r: it counts
\* as matching nothing, the patterns after it still exclude what they
\* match, and at least one error for it is offered to the error channel.
C30_MalformedPattern ==
    (/\ ScanOver /\ scanner.RootPaths = <<R>> /\ scanner.MaxDepth = -1
     /\ \E i \in DOMAIN scanner.ExcludePaths : Malformed(scanner.ExcludePaths[i])) =>
        /\ R \o << <<"a">> >> \in Emitted
        /\ R \o << <<"s">>, <<"b">> >> \in Emitted <=>
              \A i \in DOMAIN scanner.ExcludePaths : scanner.ExcludePaths[i] # <<"b">>
        /\ ScanErrorsOffered >= 1

(***************************************************************************)
(* Claims about extractStrings.                                            *)
(***************************************************************************)
\* the maximal runs of printable bytes of content from index i on, cur
\* being the run that ends just before i
RECURSIVE RunsFrom(_, _, _)
RunsFrom(content, i, cur) ==
    LET ended == IF cur = <<>> THEN <<>> ELSE <<cur>>
    IN  IF i > Len(content) THEN ended
        ELSE IF Printable(content[i]) THEN RunsFrom(content, i + 1, Append(cur, content[i]))
        ELSE ended \o RunsFrom(content, i + 1, <<>>)

\* s without the later occurrences of its elements
RECURSIVE FirstOccurrences(_)
FirstOccurrences(s) ==
    IF s = <<>> THEN <<>>
    ELSE LET front == FirstOccurrences(SubSeq(s, 1, Len(s) - 1))
             last == s[Len(s)]
         IN  IF \E i \in DOMAIN front : front[i] = last THEN front ELSE Append(front, last)

LongEnough(run) == Len(run) >= StringMinLength

ExpectedStrings ==
    LET all == FirstOccurrences(SelectSeq(RunsFrom(exContent, 1, <<>>), LongEnough))
    IN  SubSeq(all, 1, IF Len(all) < StringsCap THEN Len(all) ELSE StringsCap)

\* C32: extractStrings returns, in order of first occurrence and without
\* duplicates, exactly the maximal runs of printable 7-bit bytes of the
\* content that are at least StringMinLength long, however the reader
\* splits the content into reads
C32_ExtractStrings == exPc = "done" => exResult = ExpectedStrings

(***************************************************************************)
(* Claims about the Driver.                                                *)
(***************************************************************************)
\* C31: when the driver produces its final summary, the scan-error count
\* and the API-error count it prints include every error delivered on the
\* respective error channel so far: none is still unread or received and
\* not yet counted, and the value read is the counter's last value
C31_SummaryCountsEveryError ==
    summary # NoSummary =>
        /\ summary.scanErrors = summary.scanDelivered
        /\ summary.apiErrors = summary.apiDelivered

====
